---------------------------- MODULE Spec2Model ----------------------------
(***************************************************************************)
(* A model of the rockphysics library's numerical core:                    *)
(*   - checkshot interpolation      (core/seismic.py)                      *)
(*   - log resampling to time       (core/seismic.py)                      *)
(*   - reflectivity of an impedance (core/seismic.py)                      *)
(*   - Ricker wavelet synthesis     (core/seismic.py)                      *)
(*   - convolution                  (core/seismic.py)                      *)
(*   - domain inference of LogData  (core/log_data.py)                     *)
(*   - interval summaries of a Well (core/well.py)                         *)
(* Floating point numbers are modelled by exact rationals <<num, den>>     *)
(* with den > 0 in lowest terms; the missing value NaN is <<0, 0>>.        *)
(***************************************************************************)
EXTENDS Integers, Sequences, FiniteSets, TLC

VARIABLES
    checkshot,   \* the checkshot table: a sequence of rows <<depth, time>>
    interp,      \* what create_depth_time_interpolators returned (or raised)
    query,       \* the last evaluation of depth_to_time / time_to_depth
    resampled,   \* the last call of resample_log_to_time_domain
    rc_trace,    \* the caller's reflectivity series, handed to convolve_traces
    synthetic,   \* the last call of convolve_traces
    reflectivity, \* the last call of calculate_reflectivity_series
    wavelet,     \* the last call of generate_ricker_wavelet
    logdata,     \* the last LogData constructed
    conversion,  \* the arguments of the last convert_well_logs_to_time_domain
    tops,        \* Well.tops: a function from the names present to depths
    logs,        \* Well.logs: [index |-> depths, cols |-> name -> values]
    summary,     \* the last call of Well.summarize_intervals
    time_domain, \* Well._time_domain: the cached TimeDomainAccessor, if any
    time_log,    \* the last call of well.time_domain.get_log
    alias_map,   \* LogNomenclature.alias_map: <<canonical type, aliases>> in dict order
    overrides,   \* the canonical type last given to each mnemonic by set_log_type
    log_type     \* the last call of LogNomenclature.get_log_type

interpVars   == <<checkshot, interp, query>>
resampleVars == <<resampled>>
convVars     == <<rc_trace, synthetic>>
reflVars     == <<reflectivity>>
rickerVars   == <<wavelet>>
domainVars   == <<logdata, conversion>>
wellVars     == <<tops, logs, summary>>
accessorVars == <<time_domain, time_log>>
nomenclatureVars == <<alias_map, overrides, log_type>>
vars == <<checkshot, interp, query, resampled, rc_trace, synthetic, reflectivity,
          wavelet, logdata, conversion, tops, logs, summary, time_domain, time_log,
          alias_map, overrides, log_type>>

-----------------------------------------------------------------------------
(* Bounds of the model.                                                    *)
MaxRows == 3        \* rows of a checkshot table
MaxKey == 2         \* depths of a checkshot table are 0..MaxKey, times their squares

-----------------------------------------------------------------------------
(* Numbers: exact rationals for float64, <<0, 0>> for NaN.                 *)
NaN == <<0, 0>>
IsNaN(a) == a[2] = 0

Abs(n) == IF n < 0 THEN -n ELSE n

RECURSIVE GCD(_, _)
GCD(a, b) == IF b = 0 THEN a ELSE GCD(b, a % b)

Norm(n, d) ==
    IF d = 0 THEN NaN
    ELSE LET g == GCD(Abs(n), Abs(d))
             s == IF d < 0 THEN -1 ELSE 1
         IN  <<(s * n) \div g, (s * d) \div g>>

Q(n) == <<n, 1>>
RAdd(a, b) == IF IsNaN(a) \/ IsNaN(b) THEN NaN
              ELSE Norm(a[1] * b[2] + b[1] * a[2], a[2] * b[2])
RNeg(a) == IF IsNaN(a) THEN NaN ELSE <<-a[1], a[2]>>
RSub(a, b) == RAdd(a, RNeg(b))
RMul(a, b) == IF IsNaN(a) \/ IsNaN(b) THEN NaN
              ELSE Norm(a[1] * b[1], a[2] * b[2])
\* x / 0 is nan or +-inf in numpy; the model never divides by zero where
\* the difference matters, and gives NaN.
RDiv(a, b) == IF IsNaN(a) \/ IsNaN(b) \/ b[1] = 0 THEN NaN
              ELSE Norm(a[1] * b[2], a[2] * b[1])
\* comparisons with NaN are False, as in IEEE 754
RLess(a, b) == ~IsNaN(a) /\ ~IsNaN(b) /\ a[1] * b[2] < b[1] * a[2]
RLeq(a, b) == ~IsNaN(a) /\ ~IsNaN(b) /\ a[1] * b[2] <= b[1] * a[2]
REq(a, b) == ~IsNaN(a) /\ ~IsNaN(b) /\ a = b

(* Sequence helpers.                                                       *)
Range(s) == {s[i] : i \in 1..Len(s)}
Rationals(s) == [i \in 1..Len(s) |-> Q(s[i])]
SeqsUpTo(S, n) == UNION {[1..k -> S] : k \in 0..n}

-----------------------------------------------------------------------------
(* Checkshot tables and create_depth_time_interpolators.                   *)

Depth(row) == row[1]
Time(row) == row[2]
\* the columns as arrays: table['depth'].values, table['time'].values
DepthValues(table) == [i \in 1..Len(table) |-> Depth(table[i])]
TimeValues(table) == [i \in 1..Len(table) |-> Time(table[i])]

\* DataFrame.drop_duplicates(subset=[key], keep='first'): the rows whose key
\* did not occur in an earlier row, in their original order.
RECURSIVE drop_duplicates(_, _)
drop_duplicates(table, col) ==
    IF table = <<>> THEN <<>>
    ELSE LET n == Len(table)
             front == SubSeq(table, 1, n - 1)
             kept == drop_duplicates(front, col)
         IN  IF \E j \in 1..(n - 1) : table[j][col] = table[n][col]
             THEN kept
             ELSE Append(kept, table[n])

\* the rows left in the order they came
sort_values_skipped(table, col) == table

\* DataFrame.sort_values(by=key), on rows whose keys are all distinct:
\* insertion of each row at its place.
RECURSIVE sort_values(_, _)
sort_values(table, col) ==
    IF table = <<>> THEN <<>>
    ELSE LET n == Len(table)
             sorted == sort_values(SubSeq(table, 1, n - 1), col)
             k == Cardinality({i \in 1..Len(sorted) : sorted[i][col] <= table[n][col]})
         IN  SubSeq(sorted, 1, k) \o <<table[n]>> \o SubSeq(sorted, k + 1, Len(sorted))

\* numpy.searchsorted(x, v, side='left'): a binary search that trusts x to be
\* sorted (interp1d was told assume_sorted=True). Positions are 0-based.
RECURSIVE searchsorted(_, _, _, _)
searchsorted(x, v, lo, hi) ==
    IF lo >= hi THEN lo
    ELSE LET mid == lo + ((hi - lo) \div 2)
         IN  IF RLess(x[mid + 1], v)
             THEN searchsorted(x, v, mid + 1, hi)
             ELSE searchsorted(x, v, lo, mid)

Clip(i, lo, hi) == IF i < lo THEN lo ELSE IF i > hi THEN hi ELSE i

\* interp1d(x, y, kind='linear', fill_value="extrapolate", assume_sorted=True)
\* is the pair <<x, y>>; calling it at v takes the segment the search finds
\* (the first or last segment outside the range) and follows its slope.
interp1d(x, y) == [x |-> Rationals(x), y |-> Rationals(y)]

CallLinear(f, v) ==
    LET n == Len(f.x)
        hi == Clip(searchsorted(f.x, v, 0, n), 1, n - 1) + 1   \* 1-based
        lo == hi - 1
        slope == RDiv(RSub(f.y[hi], f.y[lo]), RSub(f.x[hi], f.x[lo]))
    IN  RAdd(RMul(slope, RSub(v, f.x[lo])), f.y[lo])

NoInterp == [status |-> "none", depth_to_time_func |-> [x |-> <<>>, y |-> <<>>],
             time_to_depth_func |-> [x |-> <<>>, y |-> <<>>]]
Raised(e) == [NoInterp EXCEPT !.status = e]

\* drop_duplicates(subset=[key], keep='last'), the slip of keeping the wrong row
RECURSIVE drop_duplicates_keep_last(_, _)
drop_duplicates_keep_last(table, col) ==
    IF table = <<>> THEN <<>>
    ELSE IF \E j \in 2..Len(table) : table[j][col] = table[1][col]
         THEN drop_duplicates_keep_last(Tail(table), col)
         ELSE <<table[1]>> \o drop_duplicates_keep_last(Tail(table), col)
unique_depth_data_keep_last(table) == drop_duplicates_keep_last(table, 1)

unique_depth_data(table) == drop_duplicates(table, 1)
unique_time_data(table) == drop_duplicates(table, 2)

depth_to_time_func(table) ==
    LET u == unique_depth_data(table)
    IN  interp1d(DepthValues(u), TimeValues(u))

\* time_to_depth built without the re-sort by time
time_to_depth_func_unsorted(table) ==
    LET u == unique_time_data(table)
    IN  interp1d(TimeValues(u), DepthValues(u))

time_to_depth_func(table) ==
    LET sorted_time_data == sort_values(unique_time_data(table), 2)
    IN  interp1d(TimeValues(sorted_time_data), DepthValues(sorted_time_data))

\* the interpolators built without the test of the unique times
create_depth_time_interpolators_unchecked(table) ==
    IF Len(table) < 2 THEN Raised("ValueError")
    ELSE IF Len(unique_depth_data(table)) < 2 THEN Raised("ValueError")
    ELSE [status |-> "ok",
          depth_to_time_func |-> depth_to_time_func(table),
          time_to_depth_func |-> time_to_depth_func(table)]

create_depth_time_interpolators(table) ==
    IF Len(table) < 2 THEN Raised("ValueError")
    ELSE IF Len(unique_depth_data(table)) < 2 THEN Raised("ValueError")
    ELSE IF Len(unique_time_data(table)) < 2 THEN Raised("ValueError")
    ELSE [status |-> "ok",
          depth_to_time_func |-> depth_to_time_func(table),
          time_to_depth_func |-> time_to_depth_func(table)]


-----------------------------------------------------------------------------
(* The checkshot pipeline: a table is given, the interpolators are built,  *)
(* a depth is converted to time and that time back to depth.               *)

\* times that are not evenly spaced, so that a table of three rows can bend
CheckshotTimes == {k * k : k \in 0..MaxKey}
Rows == (0..MaxKey) \X CheckshotTimes
Tables == SeqsUpTo(Rows, MaxRows)
\* the depths asked for: every half step from one below to one above the keys
QueryDepths == {Norm(k, 2) : k \in (-2)..(2 * MaxKey + 2)}

NoQuery == [op |-> "none", d |-> NaN, t |-> NaN, back |-> NaN]

InterpIdle == checkshot = <<>> /\ interp = NoInterp /\ query = NoQuery

CreateInterpolators ==
    /\ interp.status = "none"
    /\ interp' = create_depth_time_interpolators(checkshot)
    /\ UNCHANGED <<checkshot, query>>
    /\ UNCHANGED <<resampleVars, convVars, reflVars, rickerVars, domainVars, wellVars>>
    /\ UNCHANGED <<accessorVars, nomenclatureVars>>

DepthToTime ==
    /\ interp.status = "ok"
    /\ query.op = "none"
    /\ \E d \in QueryDepths :
          query' = [op |-> "depth_to_time", d |-> d,
                    t |-> CallLinear(interp.depth_to_time_func, d), back |-> NaN]
    /\ UNCHANGED <<checkshot, interp>>
    /\ UNCHANGED <<resampleVars, convVars, reflVars, rickerVars, domainVars, wellVars>>
    /\ UNCHANGED <<accessorVars, nomenclatureVars>>

\* time_to_depth applied to the time depth_to_time returned
TimeToDepth ==
    /\ interp.status = "ok"
    /\ query.op = "depth_to_time"
    /\ query' = [query EXCEPT !.op = "time_to_depth",
                              !.back = CallLinear(interp.time_to_depth_func, query.t)]
    /\ UNCHANGED <<checkshot, interp>>
    /\ UNCHANGED <<resampleVars, convVars, reflVars, rickerVars, domainVars, wellVars>>
    /\ UNCHANGED <<accessorVars, nomenclatureVars>>

-----------------------------------------------------------------------------
(* resample_log_to_time_domain. A pandas Series is a record                *)
(* [index |-> keys, values |-> values] of two sequences of equal length.   *)

MaxSamples == 2     \* samples of a depth-indexed curve
MaxTarget == 2      \* length of a target time index

Series(index, values) == [index |-> index, values |-> values]
EmptySeries == Series(<<>>, <<>>)

\* the keys of a set in increasing order (Index.sort_values on distinct keys)
RECURSIVE SortKeys(_)
SortKeys(S) ==
    IF S = {} THEN <<>>
    ELSE LET m == CHOOSE x \in S : \A y \in S : RLeq(x, y)
         IN  <<m>> \o SortKeys(S \ {m})

RECURSIVE Sum(_)
Sum(s) == IF s = <<>> THEN Q(0) ELSE RAdd(s[1], Sum(Tail(s)))

\* Series.groupby(index).first() in its place: the first valid value of each key
groupby_first(series) ==
    LET keys == SortKeys(Range(series.index))
        group(k) == SelectSeq([i \in 1..Len(series.index) |->
                                  IF series.index[i] = k THEN series.values[i] ELSE NaN],
                              LAMBDA v : ~IsNaN(v))
        first(k) == IF group(k) = <<>> THEN NaN ELSE group(k)[1]
    IN  Series(keys, [i \in 1..Len(keys) |-> first(keys[i])])

\* Series.groupby(index).mean() after sort_index(): one sample for each
\* distinct key, in increasing key order, holding the mean of the values
\* that are not NaN (NaN when there is none).
groupby_mean(series) ==
    LET keys == SortKeys(Range(series.index))
        group(k) == SelectSeq([i \in 1..Len(series.index) |->
                                  IF series.index[i] = k THEN series.values[i] ELSE NaN],
                              LAMBDA v : ~IsNaN(v))
        mean(k) == IF group(k) = <<>> THEN NaN
                   ELSE RDiv(Sum(group(k)), Q(Len(group(k))))
    IN  Series(keys, [i \in 1..Len(keys) |-> mean(keys[i])])

\* Index.union followed by sort_values, for two indexes without duplicates
union_sorted(index1, index2) == SortKeys(Range(index1) \cup Range(index2))

\* Series.reindex(new_index) of a series whose keys are distinct: the value
\* stored under each new key, NaN for a key the series does not hold.
reindex(series, new_index) ==
    LET at(k) == IF \E i \in 1..Len(series.index) : series.index[i] = k
                 THEN series.values[CHOOSE i \in 1..Len(series.index) : series.index[i] = k]
                 ELSE NaN
    IN  Series(new_index, [j \in 1..Len(new_index) |-> at(new_index[j])])

\* Series.interpolate(method='index') with pandas' defaults (limit_direction
\* 'forward', limit_area None): a NaN between two valid samples is filled
\* linearly in the index values, a NaN before the first valid sample stays
\* NaN, a NaN after the last valid sample takes the last valid value.
interpolate_index(series) ==
    LET x == series.index
        y == series.values
        valid == {i \in 1..Len(y) : ~IsNaN(y[i])}
        first == CHOOSE i \in valid : \A j \in valid : i <= j
        last == CHOOSE i \in valid : \A j \in valid : i >= j
        fill(i) ==
            IF i < first THEN NaN
            ELSE IF i > last THEN y[last]
            ELSE LET lo == CHOOSE j \in valid : j < i /\ \A k \in valid : k < i => k <= j
                     hi == CHOOSE j \in valid : j > i /\ \A k \in valid : k > i => k >= j
                     slope == RDiv(RSub(y[hi], y[lo]), RSub(x[hi], x[lo]))
                 IN  RAdd(RMul(slope, RSub(x[i], x[lo])), y[lo])
    IN  IF valid = {} THEN series
        ELSE Series(x, [i \in 1..Len(y) |-> IF i \in valid THEN y[i] ELSE fill(i)])

\* the interpolated series returned as it is, on the union of the indexes
select_target_all(interpolated_log_time, target_time_index) == interpolated_log_time

\* line 180: only the values at the target_time_index are selected
select_target(interpolated_log_time, target_time_index) ==
    reindex(interpolated_log_time, target_time_index)

\* An index that may carry a name: [values |-> keys, name |-> characters],
\* the name a sequence of one-character strings, <<>> for None.
Index(values, name) == [values |-> values, name |-> name]
TimeMs == <<"T", "i", "m", "e", " ", "(", "m", "s", ")">>      \* "Time (ms)"

\* lines 182-188: the name of the result and of its index
time_name(series_name) == IF series_name # "" THEN series_name \o "_time" ELSE "log_time"
time_index_name(target_time_index) ==
    IF target_time_index.name # <<>> THEN target_time_index.name ELSE TimeMs

\* lines 180-188: reindex may hand the caller's Index object to the result
\* as its index (shares_index; it depends on the pandas in use), and the
\* name is then assigned to the caller's object: the caller's index as it
\* is after the assignment
index_after_rename(target_time_index, shares_index) ==
    IF shares_index
    THEN Index(target_time_index.values, time_index_name(target_time_index))
    ELSE target_time_index

\* The curve is a Series indexed by depth, with its name ("" for None). The
\* result holds the arguments and the converted times of the samples beside
\* the returned series, its name and the name of its index, and the caller's
\* target_time_index as the call leaves it.
resample_log_to_time_domain(log_depth_series, series_name, d2t, target_time_index, shares_index) ==
    IF log_depth_series.index = <<>>
    THEN [status |-> "ok", curve |-> log_depth_series, target |-> target_time_index,
          target_after |-> target_time_index,
          source_name |-> series_name,
          times |-> <<>>,
          out |-> Series(target_time_index.values,
                         [j \in 1..Len(target_time_index.values) |-> NaN]),
          name |-> time_name(series_name),
          index_name |-> target_time_index.name]
    ELSE LET original_depths == log_depth_series.index
             corresponding_times ==
                 [i \in 1..Len(original_depths) |-> CallLinear(d2t, original_depths[i])]
             temp_time_log == groupby_mean(Series(corresponding_times, log_depth_series.values))
             combined_index == union_sorted(temp_time_log.index, target_time_index.values)
             aligned_series == reindex(temp_time_log, combined_index)
             interpolated_log_time == interpolate_index(aligned_series)
         IN  [status |-> "ok", curve |-> log_depth_series, target |-> target_time_index,
              target_after |-> index_after_rename(target_time_index, shares_index),
              source_name |-> series_name,
              times |-> corresponding_times,
              out |-> select_target(interpolated_log_time, target_time_index.values),
              name |-> time_name(series_name),
              index_name |-> time_index_name(target_time_index)]

NoResample == [status |-> "none", curve |-> EmptySeries, target |-> Index(<<>>, <<>>),
               target_after |-> Index(<<>>, <<>>), source_name |-> "",
               times |-> <<>>, out |-> EmptySeries, name |-> "", index_name |-> <<>>]
ResampleIdle == resampled = NoResample

\* sequences over S of length at most n with no value twice
DistinctSeqs(S, n) == {s \in SeqsUpTo(S, n) : \A i, j \in 1..Len(s) : i # j => s[i] # s[j]}
Increasing(s) == \A i \in 1..(Len(s) - 1) : s[i] < s[i + 1]

\* curves: strictly increasing depths among the keys, values 0, 1 or NaN
CurveValues == {Q(0), Q(1), NaN}
Curves ==
    {Series(Rationals(d), v) :
        <<d, v>> \in UNION {{<<dd, vv>> : dd \in {x \in [1..k -> 0..MaxKey] : Increasing(x)},
                                         vv \in [1..k -> CurveValues]} : k \in 0..MaxSamples}}
\* target time indexes: distinct times in any order, with or without a name
TargetNames == {<<>>, <<"T", "W", "T">>}
\* target times before, between, on and after the converted sample times
TargetTimes == {Q(-1), Norm(1, 2), Q(1), Q(MaxKey + 1)}
Targets == {Index(s, n) : s \in DistinctSeqs(TargetTimes, MaxTarget), n \in TargetNames}
CurveNames == {"", "GR"}

\* the checkshot tables the resampler is exercised with: time equal to
\* depth, time flat over the last segment, time half of depth
ResampleCheckshots ==
    { <<<<0, 0>>, <<1, 1>>>>, <<<<0, 0>>, <<1, 1>>, <<2, 1>>>>, <<<<0, 0>>, <<2, 1>>>> }

\* the call examined is the last step of a behaviour
Resample ==
    /\ interp.status = "ok"
    /\ resampled.status = "none"
    /\ \E curve \in Curves, name \in CurveNames, target \in Targets, shares_index \in BOOLEAN :
          resampled' = resample_log_to_time_domain(
                           curve, name, interp.depth_to_time_func, target, shares_index)
    /\ UNCHANGED <<interpVars, convVars, reflVars, rickerVars, domainVars, wellVars>>
    /\ UNCHANGED <<accessorVars, nomenclatureVars>>

-----------------------------------------------------------------------------
(* convolve_traces.                                                        *)

MaxRc == 3          \* samples of a reflectivity series
MaxWavelet == 3     \* samples of a wavelet handed to convolve_traces

Min(a, b) == IF a < b THEN a ELSE b
Max(a, b) == IF a > b THEN a ELSE b

\* fillna left out: the values as they are
fillna_skipped(values) == values

\* Series.fillna(0).values
fillna0(values) == [i \in 1..Len(values) |-> IF IsNaN(values[i]) THEN Q(0) ELSE values[i]]

\* the full discrete linear convolution of two non-empty sequences
full_convolution(a, b) ==
    [k \in 1..(Len(a) + Len(b) - 1) |->
        Sum([i \in 1..Len(a) |->
                IF k - i + 1 \in 1..Len(b) THEN RMul(a[i], b[k - i + 1]) ELSE Q(0)])]

\* scipy.signal.convolve(in1, in2, mode) on non-empty 1-d inputs. In mode
\* 'valid' scipy swaps the inputs when the second is the longer one, so the
\* result has |len(in1) - len(in2)| + 1 samples; 'same' is the part of the
\* full convolution that is centred on in1.
scipy_convolve(in1, in2, mode) ==
    LET full == full_convolution(in1, in2)
        la == Len(in1)
        lb == Len(in2)
    IN  CASE mode = "full" -> full
          [] mode = "valid" -> SubSeq(full, Min(la, lb), Max(la, lb))
          [] mode = "same" -> SubSeq(full, ((lb - 1) \div 2) + 1, ((lb - 1) \div 2) + la)

IndexMin(index) == CHOOSE m \in Range(index) : \A x \in Range(index) : RLeq(m, x)
RangeIndex(n) == [i \in 1..n |-> Q(i - 1)]

\* a plain range in place of the index: 0, 1, 2, ...
output_index_range(rc_index, n_wavelet, n_out, mode) == [i \in 1..n_out |-> Q(i - 1)]

\* the index of mode 'full' without the shift by the centre of the wavelet
output_index_unshifted(rc_index, n_wavelet, n_out, mode) ==
    IF mode = "full"
    THEN LET dt_index == IF Len(rc_index) > 1 THEN RSub(rc_index[2], rc_index[1]) ELSE Q(1)
         IN  [k \in 1..n_out |-> RAdd(RMul(Q(k - 1), dt_index), rc_index[1])]
    ELSE rc_index

\* lines 436-471: the index the result is given
output_index(rc_index, n_wavelet, n_out, mode) ==
    CASE mode = "full" /\ n_out # Len(rc_index) ->
            LET dt_index == IF Len(rc_index) > 1 THEN RSub(rc_index[2], rc_index[1]) ELSE Q(1)
                wavelet_center_offset_samples == (n_wavelet - 1) \div 2
                start_time_offset_ms == RMul(Q(wavelet_center_offset_samples), dt_index)
                start_time == RSub(IndexMin(rc_index), start_time_offset_ms)
            IN  [k \in 1..n_out |-> RAdd(RMul(Q(k - 1), dt_index), start_time)]
      [] mode = "valid" /\ n_out # Len(rc_index) /\ n_out > 0 ->
            LET start_idx_offset == (n_wavelet - 1) \div 2
            IN  IF Len(rc_index) >= start_idx_offset + n_out
                THEN SubSeq(rc_index, start_idx_offset + 1, start_idx_offset + n_out)
                ELSE RangeIndex(n_out)
      [] mode = "valid" /\ n_out = 0 -> <<>>
      [] OTHER -> rc_index

\* rc_series.fillna(0) returns a new series and .values is read from that
\* one: the caller's series is left as it was. pd.Series(values,
\* index=index) raises ValueError when the lengths differ.
convolve_traces(rc_series, wavelet_values, mode) ==
    LET rc_values == fillna0(rc_series.values)
        synthetic_values == scipy_convolve(rc_values, wavelet_values, mode)
        index == output_index(rc_series.index, Len(wavelet_values),
                              Len(synthetic_values), mode)
    IN  [status |-> IF Len(index) = Len(synthetic_values) THEN "ok" ELSE "ValueError",
         rc |-> rc_series, wavelet |-> wavelet_values, mode |-> mode,
         out |-> IF Len(index) = Len(synthetic_values)
                 THEN Series(index, synthetic_values) ELSE EmptySeries]

NoSynthetic == [status |-> "none", rc |-> EmptySeries, wavelet |-> <<>>, mode |-> "",
                out |-> EmptySeries]
ConvIdle == rc_trace = EmptySeries /\ synthetic = NoSynthetic

Modes == {"full", "valid", "same"}
RcValues == {Q(1), Q(2), NaN}
WaveletValues == {Q(1), Q(-1)}
SampleIntervals == {1, 2}
StartTimes == {0, 3}
\* reflectivity series on a regular time index
RcSeries == {Series([i \in 1..Len(v) |-> Q(start + (i - 1) * dt)], v) :
                v \in SeqsUpTo(RcValues, MaxRc) \ {<<>>}, dt \in SampleIntervals,
                start \in StartTimes}
Wavelets == SeqsUpTo(WaveletValues, MaxWavelet) \ {<<>>}

Convolve ==
    /\ synthetic.status = "none"
    /\ \E w \in Wavelets, mode \in Modes :
          synthetic' = convolve_traces(rc_trace, w, mode)
    /\ UNCHANGED rc_trace
    /\ UNCHANGED <<interpVars, resampleVars, reflVars, rickerVars, domainVars, wellVars>>
    /\ UNCHANGED <<accessorVars, nomenclatureVars>>

-----------------------------------------------------------------------------
(* calculate_reflectivity_series, on a Series. The coefficient            *)
(* (Z2 - Z1) / (Z2 + Z1) does not depend on the unit of the impedances:    *)
(* they are counted in units of 5e-10, in which epsilon = 1e-9 is 2.       *)

MaxImpedance == 3   \* samples of an impedance series
MaxZ == 3           \* impedances are -MaxZ..MaxZ units, or NaN

\* a guard against the exact zero only
epsilon_zero == Q(0)

\* line 313
epsilon == Q(2)

\* np.abs
RAbs(a) == IF IsNaN(a) THEN NaN ELSE <<Abs(a[1]), a[2]>>

\* lines 310-319: the coefficient of each adjacent pair
pair_coefficients(z) ==
    LET z1 == SubSeq(z, 1, Len(z) - 1)
        z2 == SubSeq(z, 2, Len(z))
        numerator == [i \in 1..Len(z1) |-> RSub(z2[i], z1[i])]
        denominator == [i \in 1..Len(z1) |-> RAdd(z2[i], z1[i])]
        valid_denominator_mask == [i \in 1..Len(z1) |-> RLess(epsilon, RAbs(denominator[i]))]
    IN  [i \in 1..Len(z1) |->
            IF valid_denominator_mask[i] THEN RDiv(numerator[i], denominator[i]) ELSE NaN]

NoReflectivity == [status |-> "none", acoustic_impedance |-> EmptySeries, mode |-> "",
                   out |-> EmptySeries]

\* the padding of 'interface_above' and 'interface_below' exchanged
calculate_reflectivity_series_swapped(acoustic_impedance, mode) ==
    LET original_index == acoustic_impedance.index
        rc == pair_coefficients(acoustic_impedance.values)
        returned(series) == [status |-> "ok", acoustic_impedance |-> acoustic_impedance,
                             mode |-> mode, out |-> series]
        raised == [NoReflectivity EXCEPT !.status = "ValueError",
                                         !.acoustic_impedance = acoustic_impedance,
                                         !.mode = mode]
    IN  IF Len(acoustic_impedance.values) < 2 THEN raised
        ELSE CASE mode = "interface_above" -> returned(Series(original_index, <<NaN>> \o rc))
               [] mode = "interface_below" -> returned(Series(original_index, Append(rc, NaN)))
               [] mode = "interface_between" ->
                      returned(Series(SubSeq(original_index, 1, Len(original_index) - 1), rc))
               [] OTHER -> raised

\* lines 299-338
calculate_reflectivity_series(acoustic_impedance, mode) ==
    LET original_index == acoustic_impedance.index
        rc == pair_coefficients(acoustic_impedance.values)
        returned(series) == [status |-> "ok", acoustic_impedance |-> acoustic_impedance,
                             mode |-> mode, out |-> series]
        raised == [NoReflectivity EXCEPT !.status = "ValueError",
                                         !.acoustic_impedance = acoustic_impedance,
                                         !.mode = mode]
    IN  IF Len(acoustic_impedance.values) < 2 THEN raised
        ELSE CASE mode = "interface_above" -> returned(Series(original_index, Append(rc, NaN)))
               [] mode = "interface_below" -> returned(Series(original_index, <<NaN>> \o rc))
               [] mode = "interface_between" ->
                      returned(Series(SubSeq(original_index, 1, Len(original_index) - 1), rc))
               [] OTHER -> raised

ReflIdle == reflectivity = NoReflectivity

ImpedanceValues == {Q(k) : k \in (-MaxZ)..MaxZ} \cup {NaN}
\* impedance series on a regular index that starts at one sample interval
ImpedanceSeries ==
    {Series([i \in 1..Len(v) |-> Q(i * dt)], v) :
        v \in SeqsUpTo(ImpedanceValues, MaxImpedance), dt \in SampleIntervals}
\* the three modes and a name that is none of them
ReflectivityModes == {"interface_above", "interface_below", "interface_between", "interface"}

CalculateReflectivity ==
    /\ reflectivity.status = "none"
    /\ \E z \in ImpedanceSeries, mode \in ReflectivityModes :
          reflectivity' = calculate_reflectivity_series(z, mode)
    /\ UNCHANGED <<interpVars, resampleVars, convVars, rickerVars, domainVars, wellVars>>
    /\ UNCHANGED <<accessorVars, nomenclatureVars>>

-----------------------------------------------------------------------------
(* generate_ricker_wavelet. The amplitude (1 - 2x) exp(-x) with            *)
(* x = (pi f t)^2 is not rational: a sample is kept as its time t_ms and   *)
(* the rational (f t_s)^2 = x / pi^2. The amplitude is 1 exactly where     *)
(* that is 0, is below 1 everywhere else, and is a function of it.         *)

MaxFreq == 3        \* peak frequencies are 0..MaxFreq Hz
MaxLengthMs == 9    \* wavelet lengths are 0..MaxLengthMs ms
MaxDtMs == 4        \* sample intervals are 0..MaxDtMs ms

\* round(a / b) for positive integers: to the nearest, a half to the even one
RoundDiv(a, b) ==
    LET q == a \div b
        r == a % b
    IN  IF 2 * r < b THEN q
        ELSE IF 2 * r > b THEN q + 1
        ELSE IF q % 2 = 0 THEN q ELSE q + 1

\* int(a / b) for positive integers: the quotient truncated
IntDiv(a, b) == a \div b

\* numpy.linspace(start, stop, num): start alone when num is 1
linspace(start, stop, num) ==
    IF num = 1 THEN <<start>>
    ELSE LET step == RDiv(RSub(stop, start), Q(num - 1))
         IN  [i \in 1..num |-> IF i = num THEN stop ELSE RAdd(start, RMul(Q(i - 1), step))]

num_samples(length_ms, dt_ms) ==
    LET n == IntDiv(length_ms, dt_ms)
    IN  IF n % 2 = 0 THEN n + 1 ELSE n

\* the length the time axis is built from (line 373)
effective_length_ms(length_ms, dt_ms) ==
    IF IntDiv(length_ms, dt_ms) % 2 = 0
    THEN num_samples(length_ms, dt_ms) * dt_ms
    ELSE length_ms

generate_ricker_wavelet(peak_frequency, length_ms, dt_ms) ==
    IF peak_frequency <= 0 \/ length_ms <= 0 \/ dt_ms <= 0
    THEN [status |-> "ValueError", peak_frequency |-> peak_frequency,
          length_ms |-> length_ms, dt_ms |-> dt_ms, num_samples |-> 0,
          effective_length_ms |-> 0, t_ms |-> <<>>, f_t_sq |-> <<>>]
    ELSE LET n == num_samples(length_ms, dt_ms)
             len == effective_length_ms(length_ms, dt_ms)
             t_ms == linspace(Norm(-len, 2), Norm(len, 2), n)
             t_s == [i \in 1..n |-> RDiv(t_ms[i], Q(1000))]
             f_t == [i \in 1..n |-> RMul(Q(peak_frequency), t_s[i])]
         IN  [status |-> "ok", peak_frequency |-> peak_frequency,
              length_ms |-> length_ms, dt_ms |-> dt_ms, num_samples |-> n,
              effective_length_ms |-> len, t_ms |-> t_ms,
              f_t_sq |-> [i \in 1..n |-> RMul(f_t[i], f_t[i])]]

NoWavelet == [status |-> "none", peak_frequency |-> 0, length_ms |-> 0, dt_ms |-> 0,
              num_samples |-> 0, effective_length_ms |-> 0, t_ms |-> <<>>, f_t_sq |-> <<>>]
RickerIdle == wavelet = NoWavelet

GenerateRicker ==
    /\ wavelet.status = "none"
    /\ \E f \in 0..MaxFreq, length_ms \in 0..MaxLengthMs, dt_ms \in 0..MaxDtMs :
          wavelet' = generate_ricker_wavelet(f, length_ms, dt_ms)
    /\ UNCHANGED <<interpVars, resampleVars, convVars, reflVars, domainVars, wellVars>>
    /\ UNCHANGED <<accessorVars, nomenclatureVars>>

-----------------------------------------------------------------------------
(* LogData and convert_well_logs_to_time_domain. A DataFrame is            *)
(* [index |-> Index, columns |-> names, data |-> one value sequence for    *)
(* each column]. Index names are sequences of characters.                  *)

MaxTokens == 3      \* an index name is made of at most MaxTokens tokens
MaxMnemonics == 2   \* mnemonics asked of convert_well_logs_to_time_domain

DataFrame(index, columns, data) == [index |-> index, columns |-> columns, data |-> data]

\* str.lower() on the characters index names are made of
LowerChar(c) ==
    CASE c = "D" -> "d" [] c = "E" -> "e" [] c = "P" -> "p" [] c = "T" -> "t"
      [] c = "H" -> "h" [] c = "I" -> "i" [] c = "M" -> "m" [] c = "W" -> "w"
      [] c = "S" -> "s" [] OTHER -> c
lower(name) == [i \in 1..Len(name) |-> LowerChar(name[i])]

\* Python's  sub in s  on strings
In(sub, str) ==
    \E i \in 0..(Len(str) - Len(sub)) : SubSeq(str, i + 1, i + Len(sub)) = sub

\* the truth value of a Python str: non-empty
Truthy(str) == str # <<>>

\* line 29 reads  if "depth" or "dept" in name_lower:  which Python parses
\* as  "depth" or ("dept" in name_lower)
infer_domain(index_name) ==
    IF Truthy(index_name)
    THEN LET name_lower == lower(index_name)
         IN  IF Truthy(<<"d", "e", "p", "t", "h">>) \/ In(<<"d", "e", "p", "t">>, name_lower)
             THEN "depth"
             ELSE IF In(<<"t", "i", "m", "e">>, name_lower) \/ In(<<"t", "w", "t">>, name_lower)
             THEN "time"
             ELSE "unknown"
    ELSE "unknown"

\* LogData.__init__
LogData(data) == [status |-> "ok", data |-> data, domain |-> infer_domain(data.index.name)]

HasColumn(df, c) == \E i \in 1..Len(df.columns) : df.columns[i] = c
Column(df, c) == df.data[CHOOSE i \in 1..Len(df.columns) : df.columns[i] = c]

\* the loop with an absent name treated as fatal to what was collected
RECURSIVE time_domain_series_collection_strict(_, _, _, _, _)
time_domain_series_collection_strict(df, log_mnemonics, d2t, target_time_index, shares_index) ==
    IF log_mnemonics = <<>> THEN <<>>
    ELSE LET n == Len(log_mnemonics)
             before == time_domain_series_collection_strict(
                           df, SubSeq(log_mnemonics, 1, n - 1), d2t, target_time_index,
                           shares_index)
             mnemonic == log_mnemonics[n]
             r == resample_log_to_time_domain(
                      Series(df.index.values, Column(df, mnemonic)), mnemonic,
                      d2t, target_time_index, shares_index)
         IN  IF ~HasColumn(df, mnemonic) THEN <<>> ELSE Append(before, r)

\* lines 233-245: the resampled series of the mnemonics found, keyed by
\* their new names; a name met again replaces the series at its place (a
\* call that names the caller's index leaves the name the later calls give)
RECURSIVE time_domain_series_collection(_, _, _, _, _)
time_domain_series_collection(df, log_mnemonics, d2t, target_time_index, shares_index) ==
    IF log_mnemonics = <<>> THEN <<>>
    ELSE LET n == Len(log_mnemonics)
             before == time_domain_series_collection(
                           df, SubSeq(log_mnemonics, 1, n - 1), d2t, target_time_index,
                           shares_index)
             mnemonic == log_mnemonics[n]
             r == resample_log_to_time_domain(
                      Series(df.index.values, Column(df, mnemonic)), mnemonic,
                      d2t, target_time_index, shares_index)
         IN  IF ~HasColumn(df, mnemonic) THEN before
             ELSE IF \E i \in 1..Len(before) : before[i].name = r.name
             THEN [i \in 1..Len(before) |-> IF before[i].name = r.name THEN r ELSE before[i]]
             ELSE Append(before, r)

convert_well_logs_to_time_domain(depth_log_dataframe, log_mnemonics, d2t, target_time_index, shares_index) ==
    LET collection == time_domain_series_collection(
                          depth_log_dataframe, log_mnemonics, d2t, target_time_index,
                          shares_index)
        index_name == IF target_time_index.name # <<>> THEN target_time_index.name ELSE TimeMs
        time_log_dataframe ==
            DataFrame(Index(target_time_index.values, index_name),
                      [i \in 1..Len(collection) |-> collection[i].name],
                      [i \in 1..Len(collection) |-> collection[i].out.values])
    IN  LogData(time_log_dataframe)

NoLogData == [status |-> "none", data |-> DataFrame(Index(<<>>, <<>>), <<>>, <<>>),
              domain |-> ""]
NoConversion == [called |-> FALSE, depth_log_dataframe |-> DataFrame(Index(<<>>, <<>>), <<>>, <<>>),
                 log_mnemonics |-> <<>>, target_time_index |-> Index(<<>>, <<>>),
                 target_after |-> Index(<<>>, <<>>)]
DomainIdle == logdata = NoLogData /\ conversion = NoConversion

RECURSIVE Flatten(_)
Flatten(ss) == IF ss = <<>> THEN <<>> ELSE ss[1] \o Flatten(Tail(ss))

NameTokens ==
    { <<"D", "e", "p", "t", "h">>, <<"D", "E", "P", "T">>, <<"T", "i", "m", "e">>,
      <<"T", "W", "T">>, <<" ", "(", "m", "s", ")">>, <<"M", "D">> }
IndexNames == {Flatten(ts) : ts \in SeqsUpTo(NameTokens, MaxTokens)}

Mnemonics == {"GR", "RHOB", "DT"}
\* depth-indexed tables: the columns among GR and RHOB, holding one curve
DepthTables ==
    {DataFrame(Index(c.index, <<"D", "E", "P", "T">>), cols,
               [i \in 1..Len(cols) |-> c.values]) :
        c \in Curves, cols \in {<<>>, <<"GR">>, <<"RHOB">>, <<"GR", "RHOB">>}}
ConvertTargets ==
    {Index(v, n) : v \in {<<>>, <<Q(0), Q(1)>>}, n \in TargetNames \cup {TimeMs}}

\* a LogData built on a table whose index has the given name
NewLogData ==
    /\ logdata.status = "none"
    /\ \E index_name \in IndexNames :
          logdata' = LogData(DataFrame(Index(<<>>, index_name), <<>>, <<>>))
    /\ UNCHANGED conversion
    /\ UNCHANGED <<interpVars, resampleVars, convVars, reflVars, rickerVars, wellVars>>
    /\ UNCHANGED <<accessorVars, nomenclatureVars>>

ConvertWellLogs ==
    /\ interp.status = "ok"
    /\ logdata.status = "none"
    /\ \E df \in DepthTables, log_mnemonics \in DistinctSeqs(Mnemonics, MaxMnemonics),
          target \in ConvertTargets, shares_index \in BOOLEAN :
          /\ logdata' = convert_well_logs_to_time_domain(
                            df, log_mnemonics, interp.depth_to_time_func, target, shares_index)
          /\ conversion' = [called |-> TRUE, depth_log_dataframe |-> df,
                            log_mnemonics |-> log_mnemonics, target_time_index |-> target,
                            target_after |-> index_after_rename(target, shares_index)]
    /\ UNCHANGED <<interpVars, resampleVars, convVars, reflVars, rickerVars, wellVars>>
    /\ UNCHANGED <<accessorVars, nomenclatureVars>>

-----------------------------------------------------------------------------
(* Well: tops, intervals and summarize_intervals.                          *)
(* Well.tops is a dict: a sequence of <<name, depth>> in insertion order.  *)

MaxDepth == 3       \* depths of tops and of log samples are 0..MaxDepth

\* Well.add_top: tops[name] = depth (a name already there keeps its place)
add_top(t, name, depth) ==
    IF \E i \in 1..Len(t) : t[i][1] = name
    THEN [i \in 1..Len(t) |-> IF t[i][1] = name THEN <<name, depth>> ELSE t[i]]
    ELSE Append(t, <<name, depth>>)

\* the tops in the order of their insertion, as an unsorted dict gives them
sorted_tops_insertion_order(t) == t

\* sorted(tops.items(), key=depth): a stable sort
RECURSIVE sorted_tops(_)
sorted_tops(t) ==
    IF t = <<>> THEN <<>>
    ELSE LET n == Len(t)
             before == sorted_tops(SubSeq(t, 1, n - 1))
             k == Cardinality({i \in 1..Len(before) : before[i][2] <= t[n][2]})
         IN  SubSeq(before, 1, k) \o <<t[n]>> \o SubSeq(before, k + 1, Len(before))

\* Well.get_intervals: <<top_name, top_depth, base_name, base_depth>>
get_intervals(t) ==
    IF Len(t) < 2 THEN <<>>
    ELSE LET st == sorted_tops(t)
         IN  [i \in 1..(Len(st) - 1) |-> <<st[i][1], st[i][2], st[i + 1][1], st[i + 1][2]>>]

\* a slice that takes the sample at the base depth as well
interval_rows_closed(df, top_depth, base_depth) ==
    SelectSeq([i \in 1..Len(df.index.values) |-> i],
              LAMBDA i : /\ RLeq(Q(top_depth), df.index.values[i])
                         /\ RLeq(df.index.values[i], Q(base_depth)))

\* self.logs[(index >= top_depth) & (index < base_depth)]: the positions kept
interval_rows(df, top_depth, base_depth) ==
    SelectSeq([i \in 1..Len(df.index.values) |-> i],
              LAMBDA i : /\ RLeq(Q(top_depth), df.index.values[i])
                         /\ RLess(df.index.values[i], Q(base_depth)))

interval_df(df, top_depth, base_depth) ==
    LET rows == interval_rows(df, top_depth, base_depth)
    IN  DataFrame(Index([j \in 1..Len(rows) |-> df.index.values[rows[j]]], df.index.name),
                  df.columns,
                  [c \in 1..Len(df.columns) |-> [j \in 1..Len(rows) |-> df.data[c][rows[j]]]])

\* a sequence of numbers in non-decreasing order
RECURSIVE SortNumbers(_)
SortNumbers(s) ==
    IF s = <<>> THEN <<>>
    ELSE LET n == Len(s)
             before == SortNumbers(SubSeq(s, 1, n - 1))
             k == Cardinality({i \in 1..Len(before) : RLeq(before[i], s[n])})
         IN  SubSeq(before, 1, k) \o <<s[n]>> \o SubSeq(before, k + 1, Len(before))

\* numpy.median of a non-empty sequence
median(s) ==
    LET o == SortNumbers(s)
        n == Len(o)
    IN  IF n % 2 = 1 THEN o[(n + 1) \div 2]
        ELSE RDiv(RAdd(o[n \div 2], o[(n \div 2) + 1]), Q(2))

diff(index) == [i \in 1..(Len(index) - 1) |-> RSub(index[i + 1], index[i])]
IndexMax(index) == CHOOSE m \in Range(index) : \A x \in Range(index) : RLeq(x, m)

\* the thickness with the mean of the depth steps in place of the median
calculate_interval_thickness_mean_step(df) ==
    IF Len(df.index.values) < 2 THEN <<Q(0), Q(0)>>
    ELSE LET span == RSub(IndexMax(df.index.values), IndexMin(df.index.values))
             step == RDiv(span, Q(Len(df.index.values) - 1))
         IN  <<RAdd(span, step), step>>

\* Well._calculate_interval_thickness: <<gross_thickness, step>>
calculate_interval_thickness(df) ==
    IF df.index.values = <<>> THEN <<Q(0), Q(0)>>
    ELSE LET depth_steps == diff(df.index.values)
         IN  IF Len(depth_steps) = 0 THEN <<Q(0), Q(0)>>
             ELSE LET step == median(depth_steps)
                  IN  <<RAdd(RSub(IndexMax(df.index.values), IndexMin(df.index.values)), step),
                        step>>

CountTrue(mask) == Cardinality({i \in 1..Len(mask) : mask[i]})

\* net sand as the count of the samples, not multiplied by the step
calculate_interval_net_sand_unit_step(df, vsh_curve, vsh_cutoff) ==
    LET gross_thickness == calculate_interval_thickness(df)[1]
    IN  IF gross_thickness = Q(0)
        THEN [gross_thickness |-> Q(0), net_sand |-> Q(0), ntg_sand |-> NaN]
        ELSE IF ~HasColumn(df, vsh_curve)
        THEN [gross_thickness |-> gross_thickness, net_sand |-> NaN, ntg_sand |-> NaN]
        ELSE LET vsh == Column(df, vsh_curve)
                 net_sand_samples ==
                     CountTrue([i \in 1..Len(vsh) |-> RLess(vsh[i], vsh_cutoff)])
             IN  [gross_thickness |-> gross_thickness,
                  net_sand |-> Q(net_sand_samples),
                  ntg_sand |-> RDiv(Q(net_sand_samples), gross_thickness)]

\* Well._calculate_interval_net_sand
calculate_interval_net_sand(df, vsh_curve, vsh_cutoff) ==
    LET th == calculate_interval_thickness(df)
        gross_thickness == th[1]
        step == th[2]
    IN  IF gross_thickness = Q(0)
        THEN [gross_thickness |-> Q(0), net_sand |-> Q(0), ntg_sand |-> NaN]
        ELSE IF ~HasColumn(df, vsh_curve)
        THEN [gross_thickness |-> gross_thickness, net_sand |-> NaN, ntg_sand |-> NaN]
        ELSE LET vsh == Column(df, vsh_curve)
                 net_sand_samples ==
                     CountTrue([i \in 1..Len(vsh) |-> RLess(vsh[i], vsh_cutoff)])
                 net_sand_thickness == RMul(Q(net_sand_samples), step)
             IN  [gross_thickness |-> gross_thickness,
                  net_sand |-> net_sand_thickness,
                  ntg_sand |-> IF RLess(Q(0), gross_thickness)
                               THEN RDiv(net_sand_thickness, gross_thickness) ELSE NaN]

\* interval_df.get(curve, default) compared with a cutoff: a boolean Series
\* when the curve is there, a plain Python bool when the default is taken
BoolSeries(mask) == [kind |-> "Series", mask |-> mask]
PyBool(b) == [kind |-> "bool", mask |-> <<b>>]

get_less(df, curve, default, cutoff) ==
    IF HasColumn(df, curve)
    THEN BoolSeries([i \in 1..Len(df.index.values) |-> RLess(Column(df, curve)[i], cutoff)])
    ELSE PyBool(RLess(default, cutoff))

get_greater(df, curve, default, cutoff) ==
    IF HasColumn(df, curve)
    THEN BoolSeries([i \in 1..Len(df.index.values) |-> RLess(cutoff, Column(df, curve)[i])])
    ELSE PyBool(RLess(cutoff, default))

\* a & b: element by element, a plain bool spread over the Series; two
\* plain bools give a plain bool
And(a, b) ==
    IF a.kind = "bool" /\ b.kind = "bool" THEN PyBool(a.mask[1] /\ b.mask[1])
    ELSE IF a.kind = "bool" THEN BoolSeries([i \in 1..Len(b.mask) |-> a.mask[1] /\ b.mask[i]])
    ELSE IF b.kind = "bool" THEN BoolSeries([i \in 1..Len(a.mask) |-> a.mask[i] /\ b.mask[1]])
    ELSE BoolSeries([i \in 1..Len(a.mask) |-> a.mask[i] /\ b.mask[i]])

pay_mask(df, vsh_curve, vsh_cutoff, phi_curve, phi_cutoff, sw_curve, sw_cutoff) ==
    And(And(get_less(df, vsh_curve, Q(1), vsh_cutoff),
            get_greater(df, phi_curve, Q(0), phi_cutoff)),
        get_less(df, sw_curve, Q(1), sw_cutoff))

\* Well._calculate_interval_net_pay: pay_mask.sum() * step; a plain bool has
\* no sum()
calculate_interval_net_pay(df, vsh_curve, vsh_cutoff, phi_curve, phi_cutoff, sw_curve, sw_cutoff) ==
    LET step == calculate_interval_thickness(df)[2]
        m == pay_mask(df, vsh_curve, vsh_cutoff, phi_curve, phi_cutoff, sw_curve, sw_cutoff)
    IN  IF m.kind = "bool"
        THEN [status |-> "AttributeError", net_pay |-> NaN]
        ELSE [status |-> "ok", net_pay |-> RMul(Q(CountTrue(m.mask)), step)]

\* Series.mean(): of the values that are not NaN
mean(values) ==
    LET v == SelectSeq(values, LAMBDA x : ~IsNaN(x))
    IN  IF v = <<>> THEN NaN ELSE RDiv(Sum(v), Q(Len(v)))

\* Well._calculate_interval_average_properties, in the order of avg_curves
calculate_interval_average_properties(df, avg_curves) ==
    [i \in 1..Len(avg_curves) |->
        IF HasColumn(df, avg_curves[i]) THEN mean(Column(df, avg_curves[i])) ELSE NaN]

\* arguments of summarize_intervals: an optional argument is "" or <<>> when
\* it is None, and <<value>> when it is given
Supplied(a) ==
    a.phi_curve # "" /\ a.phi_cutoff # <<>> /\ a.sw_curve # "" /\ a.sw_cutoff # <<>>

summary_columns(a) ==
    <<"Base", "TopMD", "BaseMD", "gross_thickness", "net_sand", "ntg_sand">>
    \o (IF Supplied(a) THEN <<"net_pay">> ELSE <<>>)
    \o [i \in 1..Len(a.avg_curves) |-> a.avg_curves[i] \o "_avg"]

\* pd.DataFrame(columns=['Top', 'Base', 'TopMD', 'BaseMD']).set_index('Top')
EmptySummary(a) ==
    [status |-> "ok", args |-> a, columns |-> <<"Base", "TopMD", "BaseMD">>, rows |-> <<>>,
     intervals |-> <<>>]

\* lines 192-210: the summary of one interval whose slice is not empty; the
\* depths of the slice are kept beside the columns
interval_summary(df, interval, a) ==
    LET slice == interval_df(df, interval[2], interval[4])
        net_sand_results == calculate_interval_net_sand(slice, a.vsh_curve, a.vsh_cutoff)
        net_pay_results ==
            IF Supplied(a)
            THEN calculate_interval_net_pay(slice, a.vsh_curve, a.vsh_cutoff,
                                            a.phi_curve, a.phi_cutoff[1],
                                            a.sw_curve, a.sw_cutoff[1])
            ELSE [status |-> "ok", net_pay |-> NaN]
    IN  [status |-> net_pay_results.status,
         Top |-> interval[1], Base |-> interval[3],
         TopMD |-> interval[2], BaseMD |-> interval[4],
         gross_thickness |-> net_sand_results.gross_thickness,
         net_sand |-> net_sand_results.net_sand,
         ntg_sand |-> net_sand_results.ntg_sand,
         net_pay |-> net_pay_results.net_pay,
         avg |-> calculate_interval_average_properties(slice, a.avg_curves),
         slice |-> slice.index.values]

\* Well.summarize_intervals
summarize_intervals(t, df, a) ==
    LET intervals == get_intervals(t)
        nonempty == SelectSeq(intervals,
                        LAMBDA iv : interval_rows(df, iv[2], iv[4]) # <<>>)
        summary_list == [i \in 1..Len(nonempty) |-> interval_summary(df, nonempty[i], a)]
    IN  IF intervals = <<>> THEN EmptySummary(a)
        ELSE IF \E i \in 1..Len(summary_list) : summary_list[i].status # "ok"
        THEN [status |-> "AttributeError", args |-> a, columns |-> <<>>, rows |-> <<>>,
              intervals |-> intervals]
        ELSE IF summary_list = <<>> THEN [EmptySummary(a) EXCEPT !.intervals = intervals]
        ELSE [status |-> "ok", args |-> a, columns |-> summary_columns(a),
              rows |-> summary_list, intervals |-> intervals]

NoArgs == [vsh_curve |-> "", vsh_cutoff |-> NaN, phi_curve |-> "", phi_cutoff |-> <<>>,
           sw_curve |-> "", sw_cutoff |-> <<>>, avg_curves |-> <<>>]
NoSummary ==
    [status |-> "none", args |-> NoArgs, columns |-> <<>>, rows |-> <<>>, intervals |-> <<>>]
WellIdle ==
    tops = <<>> /\ logs = DataFrame(Index(<<>>, <<>>), <<>>, <<>>) /\ summary = NoSummary

TopNames == <<"A", "B", "C">>
\* the curves of a well's logs, as functions of the depth of the sample
LogValue(curve, d) ==
    CASE curve = "VSH" -> Q(d % 2)
      [] curve = "PHI" -> Q((d \div 2) % 2)
      [] curve = "SW" -> Q(IF d % 3 = 0 THEN 1 ELSE 0)
LogColumns ==
    { <<>>, <<"VSH">>, <<"PHI">>, <<"SW">>, <<"VSH", "PHI">>, <<"VSH", "SW">>,
      <<"PHI", "SW">>, <<"VSH", "PHI", "SW">> }
LogIndexes == {d \in SeqsUpTo(0..MaxDepth, MaxDepth + 1) : Increasing(d)}
WellLogs ==
    {DataFrame(Index(Rationals(d), <<"D", "E", "P", "T">>), cols,
               [c \in 1..Len(cols) |-> [i \in 1..Len(d) |-> LogValue(cols[c], d[i])]]) :
        d \in LogIndexes, cols \in LogColumns}
SummaryArgs ==
    {[vsh_curve |-> "VSH", vsh_cutoff |-> Q(1), phi_curve |-> pay[1], phi_cutoff |-> pay[2],
      sw_curve |-> pay[3], sw_cutoff |-> pay[4], avg_curves |-> avg] :
        pay \in { <<"", <<>>, "", <<>> >>, <<"PHI", <<Q(0)>>, "SW", <<Q(1)>> >>,
                  <<"PHI", <<Q(0)>>, "SW", <<Q(2)>> >> },
        avg \in { <<>>, <<"PHI", "GR">> }}

\* logs sampled unevenly, at some of the half depths 0, 1/2, .., MaxHalfSteps/2,
\* with a VSH curve that is 2 at every third half depth and 0 elsewhere
MaxHalfSteps == 5
UnevenIndexes == {k \in SeqsUpTo(0..MaxHalfSteps, MaxHalfSteps + 1) : Increasing(k)}
UnevenLogs ==
    {DataFrame(Index([i \in 1..Len(k) |-> Norm(k[i], 2)], <<"D", "E", "P", "T">>),
               <<"VSH">>,
               <<[i \in 1..Len(k) |-> Q(IF k[i] % 3 = 1 THEN 2 ELSE 0)]>>) :
        k \in UnevenIndexes}

\* a top is added under a name the well has, or under the next unused name
\* (names are opaque, so the order in which new names appear is fixed)
AddTop ==
    /\ summary.status = "none"
    /\ \E i \in 1..Min(Len(tops) + 1, Len(TopNames)), depth \in 0..MaxDepth :
          tops' = add_top(tops, TopNames[i], depth)
    /\ UNCHANGED <<logs, summary>>
    /\ UNCHANGED <<interpVars, resampleVars, convVars, reflVars, rickerVars, domainVars>>
    /\ UNCHANGED <<accessorVars, nomenclatureVars>>

\* the summary is taken of the tops and logs the well has then; the call
\* examined is the last step of a behaviour
SummarizeIntervals ==
    /\ summary.status = "none"
    /\ \E a \in SummaryArgs : summary' = summarize_intervals(tops, logs, a)
    /\ UNCHANGED <<tops, logs>>
    /\ UNCHANGED <<interpVars, resampleVars, convVars, reflVars, rickerVars, domainVars>>
    /\ UNCHANGED <<accessorVars, nomenclatureVars>>

-----------------------------------------------------------------------------
(* Well.add_log and the time-domain accessor of a well.                    *)

MaxLogValue == 1    \* the values of a curve of these logs are 0..MaxLogValue

\* DataFrame.__setitem__: the column is replaced at its place, or appended
set_column(df, mnemonic, values) ==
    IF HasColumn(df, mnemonic)
    THEN DataFrame(df.index, df.columns,
                   [c \in 1..Len(df.columns) |->
                       IF df.columns[c] = mnemonic THEN values ELSE df.data[c]])
    ELSE DataFrame(df.index, Append(df.columns, mnemonic), Append(df.data, values))

\* Well.add_log: data is [is_series, index, values]; the logs after the call
add_log(df, mnemonic, data) ==
    IF ~data.is_series THEN [status |-> "TypeError", logs |-> df]
    ELSE IF data.index.name # df.index.name THEN [status |-> "ValueError", logs |-> df]
    ELSE [status |-> "ok",
          logs |-> set_column(df, mnemonic, reindex(Series(data.index.values, data.values),
                                                    df.index.values).values)]

\* DataFrame.set_index('TWT', drop=False): a new table on the TWT values,
\* with the columns the logs have at that moment
set_index_twt(df) ==
    DataFrame(Index(Column(df, "TWT"), <<"T", "W", "T">>), df.columns, df.data)

NoAccessor == [status |-> "None", time_df |-> DataFrame(Index(<<>>, <<>>), <<>>, <<>>)]

\* TimeDomainAccessor.__init__
TimeDomainAccessor(df) ==
    IF ~HasColumn(df, "TWT")
    THEN [status |-> "AttributeError", time_df |-> NoAccessor.time_df]
    ELSE [status |-> "ok", time_df |-> set_index_twt(df)]

\* Well.time_domain: the accessor is made at the first access and kept; a
\* construction that raises leaves _time_domain None
well_time_domain(cached, df) ==
    IF cached.status = "ok" THEN cached ELSE TimeDomainAccessor(df)

\* TimeDomainAccessor.get_log: self._time_df[mnemonic]
get_log(accessor, mnemonic) ==
    IF accessor.status # "ok"
    THEN [status |-> accessor.status, mnemonic |-> mnemonic, values |-> <<>>]
    ELSE IF ~HasColumn(accessor.time_df, mnemonic)
    THEN [status |-> "KeyError", mnemonic |-> mnemonic, values |-> <<>>]
    ELSE [status |-> "ok", mnemonic |-> mnemonic,
          values |-> Column(accessor.time_df, mnemonic)]

NoTimeLog == [status |-> "none", mnemonic |-> "", values |-> <<>>]
AccessorIdle == time_domain = NoAccessor /\ time_log = NoTimeLog

LogMnemonics == {"TWT", "GR"}
DeptIndex == Index(<<Q(0), Q(1)>>, <<"D", "E", "P", "T">>)
LogCurveValues == {Rationals(v) : v \in [1..2 -> 0..MaxLogValue]}
\* the logs of a well whose TWT curve has been calculated
TwtLogs == {DataFrame(DeptIndex, <<"TWT">>, <<v>>) : v \in LogCurveValues}
\* what add_log is handed: a Series on the depths of the logs, its index
\* named as the logs' index or not named, or something that is no Series
NewCurves ==
    {[is_series |-> TRUE, index |-> Index(DeptIndex.values, n), values |-> v] :
        n \in {DeptIndex.name, <<>>}, v \in LogCurveValues}
    \cup {[is_series |-> FALSE, index |-> Index(<<>>, <<>>), values |-> <<>>]}

AddLog ==
    /\ time_log.status = "none"
    /\ \E mnemonic \in LogMnemonics, data \in NewCurves :
          logs' = add_log(logs, mnemonic, data).logs
    /\ UNCHANGED <<tops, summary, accessorVars, nomenclatureVars>>
    /\ UNCHANGED <<interpVars, resampleVars, convVars, reflVars, rickerVars, domainVars>>

\* well.time_domain is read
AccessTimeDomain ==
    /\ time_log.status = "none"
    /\ LET accessor == well_time_domain(time_domain, logs)
       IN  time_domain' = IF accessor.status = "ok" THEN accessor ELSE time_domain
    /\ UNCHANGED <<wellVars, time_log, nomenclatureVars>>
    /\ UNCHANGED <<interpVars, resampleVars, convVars, reflVars, rickerVars, domainVars>>

\* well.time_domain.get_log(mnemonic); the call examined is the last step
\* of a behaviour
TimeDomainGetLog ==
    /\ time_log.status = "none"
    /\ \E mnemonic \in LogMnemonics :
          LET accessor == well_time_domain(time_domain, logs)
          IN  /\ time_domain' = IF accessor.status = "ok" THEN accessor ELSE time_domain
              /\ time_log' = get_log(accessor, mnemonic)
    /\ UNCHANGED <<wellVars, nomenclatureVars>>
    /\ UNCHANGED <<interpVars, resampleVars, convVars, reflVars, rickerVars, domainVars>>

-----------------------------------------------------------------------------
(* LogNomenclature: the alias map is a dict from canonical type to the     *)
(* list of its aliases, a sequence of <<canonical_name, aliases>> in the    *)
(* order of insertion. Names are sequences of characters.                  *)

UpperChar(c) ==
    CASE c = "d" -> "D" [] c = "t" -> "T" [] c = "s" -> "S" [] c = "p" -> "P"
      [] c = "g" -> "G" [] c = "r" -> "R" [] OTHER -> c
upper(name) == [i \in 1..Len(name) |-> UpperChar(name[i])]

\* str.startswith
startswith(str, prefix) ==
    Len(prefix) <= Len(str) /\ SubSeq(str, 1, Len(prefix)) = prefix

\* dict.get(canonical_type, [])
aliases_of(amap, canonical_type) ==
    IF \E i \in 1..Len(amap) : amap[i][1] = canonical_type
    THEN amap[CHOOSE i \in 1..Len(amap) : amap[i][1] = canonical_type][2]
    ELSE <<>>

\* LogNomenclature.set_log_type: the alias map after the call
set_log_type(amap, mnemonic, canonical_type) ==
    LET mnemonic_upper == upper(mnemonic)
        canonical_type_upper == upper(canonical_type)
        old == aliases_of(amap, canonical_type_upper)
        aliases == IF mnemonic_upper \in Range(old) THEN old ELSE Append(old, mnemonic_upper)
    IN  IF \E i \in 1..Len(amap) : amap[i][1] = canonical_type_upper
        THEN [i \in 1..Len(amap) |->
                IF amap[i][1] = canonical_type_upper
                THEN <<canonical_type_upper, aliases>> ELSE amap[i]]
        ELSE Append(amap, <<canonical_type_upper, aliases>>)

\* LogNomenclature.get_log_type: the type of the longest alias that is a
\* prefix of the mnemonic, the first met in the order of the dict among
\* aliases of that length
get_log_type(amap, mnemonic) ==
    LET mnemonic_upper == upper(mnemonic)
        entries == UNION {{<<i, j>> : j \in 1..Len(amap[i][2])} : i \in 1..Len(amap)}
        matches == {ij \in entries :
                       /\ startswith(mnemonic_upper, amap[ij[1]][2][ij[2]])
                       /\ Len(amap[ij[1]][2][ij[2]]) > 0}
        AliasLen(ij) == Len(amap[ij[1]][2][ij[2]])
        longest == {ij \in matches : \A kl \in matches : AliasLen(kl) <= AliasLen(ij)}
        best == CHOOSE ij \in longest :
                    \A kl \in longest : ij[1] < kl[1] \/ (ij[1] = kl[1] /\ ij[2] <= kl[2])
    IN  IF amap = <<>> \/ matches = {} THEN mnemonic_upper
        ELSE IF Truthy(amap[best[1]][1]) THEN amap[best[1]][1]
        ELSE mnemonic_upper

NoLogType == [status |-> "none", mnemonic |-> <<>>, result |-> <<>>]
MnemonicInputs == { <<"D", "T">>, <<"d", "t", "s">>, <<"G", "R">> }
MnemonicsUpper == {upper(m) : m \in MnemonicInputs}
TypeInputs == { <<"P">>, <<"S">>, <<"s">> }
NoOverrides == [m \in MnemonicsUpper |-> <<>>]
NomenclatureIdle == alias_map = <<>> /\ overrides = NoOverrides /\ log_type = NoLogType

\* the alias maps a LogNomenclature is loaded with
AliasMaps ==
    { <<>>,
      << <<<<"P">>, <<<<"D", "T">>>>>> >>,
      << <<<<"P">>, <<<<"D", "T">>>>>>, <<<<"S">>, <<<<"D", "T", "S">>>>>> >>,
      << <<<<"S">>, <<<<"D", "T", "S">>>>>>, <<<<"P">>, <<<<"D", "T">>>>>> >> }

SetLogType ==
    /\ log_type.status = "none"
    /\ \E mnemonic \in MnemonicInputs, canonical_type \in TypeInputs :
          /\ alias_map' = set_log_type(alias_map, mnemonic, canonical_type)
          /\ overrides' = [overrides EXCEPT ![upper(mnemonic)] = upper(canonical_type)]
    /\ UNCHANGED <<log_type, accessorVars, wellVars>>
    /\ UNCHANGED <<interpVars, resampleVars, convVars, reflVars, rickerVars, domainVars>>

\* the call examined is the last step of a behaviour
GetLogType ==
    /\ log_type.status = "none"
    /\ \E mnemonic \in MnemonicInputs :
          log_type' = [status |-> "ok", mnemonic |-> mnemonic,
                       result |-> get_log_type(alias_map, mnemonic)]
    /\ UNCHANGED <<alias_map, overrides, accessorVars, wellVars>>
    /\ UNCHANGED <<interpVars, resampleVars, convVars, reflVars, rickerVars, domainVars>>

-----------------------------------------------------------------------------
(* The specifications: one for each pipeline; the variables of the other   *)
(* pipelines stay idle.                                                    *)

InitInterp ==
    /\ checkshot \in Tables /\ interp = NoInterp /\ query = NoQuery
    /\ ResampleIdle /\ ConvIdle /\ ReflIdle /\ RickerIdle /\ DomainIdle /\ WellIdle
    /\ AccessorIdle /\ NomenclatureIdle
NextInterp ==
    \/ CreateInterpolators
    \/ DepthToTime
    \/ TimeToDepth
SpecInterp == InitInterp /\ [][NextInterp]_vars

InitResample ==
    /\ checkshot \in ResampleCheckshots /\ interp = NoInterp /\ query = NoQuery
    /\ ResampleIdle /\ ConvIdle /\ ReflIdle /\ RickerIdle /\ DomainIdle /\ WellIdle
    /\ AccessorIdle /\ NomenclatureIdle
NextResample ==
    \/ CreateInterpolators
    \/ Resample
SpecResample == InitResample /\ [][NextResample]_vars

InitConv ==
    /\ rc_trace \in RcSeries /\ synthetic = NoSynthetic
    /\ InterpIdle /\ ResampleIdle /\ ReflIdle /\ RickerIdle /\ DomainIdle /\ WellIdle
    /\ AccessorIdle /\ NomenclatureIdle
NextConv == Convolve
SpecConv == InitConv /\ [][NextConv]_vars

InitReflectivity ==
    /\ reflectivity = NoReflectivity
    /\ InterpIdle /\ ResampleIdle /\ ConvIdle /\ RickerIdle /\ DomainIdle /\ WellIdle
    /\ AccessorIdle /\ NomenclatureIdle
NextReflectivity == CalculateReflectivity
SpecReflectivity == InitReflectivity /\ [][NextReflectivity]_vars

InitRicker ==
    /\ InterpIdle /\ ResampleIdle /\ ConvIdle /\ ReflIdle /\ RickerIdle /\ DomainIdle /\ WellIdle
    /\ AccessorIdle /\ NomenclatureIdle
NextRicker == GenerateRicker
SpecRicker == InitRicker /\ [][NextRicker]_vars

InitLogData ==
    /\ checkshot \in ResampleCheckshots /\ interp = NoInterp /\ query = NoQuery
    /\ ResampleIdle /\ ConvIdle /\ ReflIdle /\ RickerIdle /\ DomainIdle /\ WellIdle
    /\ AccessorIdle /\ NomenclatureIdle
NextLogData ==
    \/ CreateInterpolators
    \/ NewLogData
    \/ ConvertWellLogs
SpecLogData == InitLogData /\ [][NextLogData]_vars

InitWell ==
    /\ InterpIdle /\ ResampleIdle /\ ConvIdle /\ ReflIdle /\ RickerIdle /\ DomainIdle
    /\ AccessorIdle /\ NomenclatureIdle
    /\ tops = <<>> /\ logs \in WellLogs /\ summary = NoSummary
NextWell ==
    \/ AddTop
    \/ SummarizeIntervals
SpecWell == InitWell /\ [][NextWell]_vars

\* the same well on logs that are sampled unevenly
InitUneven ==
    /\ InterpIdle /\ ResampleIdle /\ ConvIdle /\ ReflIdle /\ RickerIdle /\ DomainIdle
    /\ AccessorIdle /\ NomenclatureIdle
    /\ tops = <<>> /\ logs \in UnevenLogs /\ summary = NoSummary
SpecUneven == InitUneven /\ [][NextWell]_vars

InitAccessor ==
    /\ InterpIdle /\ ResampleIdle /\ ConvIdle /\ ReflIdle /\ RickerIdle /\ DomainIdle
    /\ NomenclatureIdle
    /\ tops = <<>> /\ logs \in TwtLogs /\ summary = NoSummary
    /\ time_domain = NoAccessor /\ time_log = NoTimeLog
NextAccessor ==
    \/ AddLog
    \/ AccessTimeDomain
    \/ TimeDomainGetLog
SpecAccessor == InitAccessor /\ [][NextAccessor]_vars

InitNomenclature ==
    /\ InterpIdle /\ ResampleIdle /\ ConvIdle /\ ReflIdle /\ RickerIdle /\ DomainIdle
    /\ WellIdle /\ AccessorIdle
    /\ alias_map \in AliasMaps /\ overrides = NoOverrides /\ log_type = NoLogType
NextNomenclature ==
    \/ SetLogType
    \/ GetLogType
SpecNomenclature == InitNomenclature /\ [][NextNomenclature]_vars

-----------------------------------------------------------------------------
(* Properties of the checkshot pipeline (SpecInterp).                      *)

Depths(table) == {table[i][1] : i \in 1..Len(table)}
InSampledRange(d) ==
    \E lo, hi \in Depths(checkshot) : RLeq(Q(lo), d) /\ RLeq(d, Q(hi))
SortedByDepth(table) == \A i \in 1..(Len(table) - 1) : table[i][1] <= table[i + 1][1]
StrictlyMonotonic(table) ==
    /\ \A i \in 1..(Len(table) - 1) : table[i][1] < table[i + 1][1]
    /\ \/ \A i \in 1..(Len(table) - 1) : table[i][2] < table[i + 1][2]
       \/ \A i \in 1..(Len(table) - 1) : table[i][2] > table[i + 1][2]

\* C1 as stated: for every accepted table (at least 2 unique depths and 2
\* unique times) and every depth d between the smallest and the largest
\* sampled depth, time_to_depth(depth_to_time(d)) = d.
C1_RoundTrip ==
    (query.op = "time_to_depth" /\ InSampledRange(query.d)) => query.back = query.d

\* C1 amended: the round trip returns d for every table whose rows are in
\* strictly increasing depth order with times strictly increasing or strictly
\* decreasing along them, and every d within the sampled depth range.
C1_RoundTripMonotonic ==
    (query.op = "time_to_depth" /\ InSampledRange(query.d) /\ StrictlyMonotonic(checkshot))
        => query.back = query.d

\* a round trip through a table of three rows that bends, at a depth between
\* two samples
C1_Witness ==
    /\ query.op = "time_to_depth"
    /\ StrictlyMonotonic(checkshot)
    /\ checkshot = << <<0, 0>>, <<1, 1>>, <<2, 4>> >>
    /\ query.d = Norm(3, 2)
    /\ query.t = Norm(5, 2)

\* the rows that hold the first occurrence of their depth
FirstRows(table) == {k \in 1..Len(table) : \A j \in 1..(k - 1) : table[j][1] # table[k][1]}
\* depth_to_time, as the last query found it, passes through the first row
\* of each distinct depth and is linear between consecutive distinct depths
PassesThroughFirstRows ==
    \A k \in FirstRows(checkshot) :
        query.d = Q(checkshot[k][1]) => query.t = Q(checkshot[k][2])
LinearBetweenDepths ==
    \A a, b \in FirstRows(checkshot) :
        LET da == checkshot[a][1]
            db == checkshot[b][1]
            ta == checkshot[a][2]
            tb == checkshot[b][2]
        IN  ( /\ da < db
              /\ \A c \in Depths(checkshot) : ~(da < c /\ c < db)
              /\ RLeq(Q(da), query.d) /\ RLeq(query.d, Q(db)) )
            => query.t = RAdd(Q(ta), RDiv(RMul(RSub(query.d, Q(da)), Q(tb - ta)), Q(db - da)))

\* C10 as stated: for every accepted table, whatever its row order,
\* depth_to_time passes through the first-occurring row of each distinct
\* depth and is linear between consecutive distinct depths.
C10_FirstOccurrence ==
    query.op = "depth_to_time" => (PassesThroughFirstRows /\ LinearBetweenDepths)

\* C10 amended: the same, for every accepted table whose rows are in
\* non-decreasing depth order (the order load_checkshot_data gives).
C10_FirstOccurrenceSorted ==
    (query.op = "depth_to_time" /\ SortedByDepth(checkshot))
        => (PassesThroughFirstRows /\ LinearBetweenDepths)

\* a depth given twice with two times, asked for: the first time is returned
C10_Witness ==
    /\ query.op = "depth_to_time"
    /\ checkshot = << <<0, 0>>, <<1, 1>>, <<1, 4>> >>
    /\ query.d = Q(1)
    /\ query.t = Q(1)

-----------------------------------------------------------------------------
(* Properties of the resampler (SpecResample).                             *)

\* C2: for every non-empty curve, every target time before the earliest or
\* after the latest converted sample time has a missing value in the output.
C2_NoExtrapolation ==
    (resampled.status = "ok" /\ resampled.curve.index # <<>>)
        => \A k \in 1..Len(resampled.target.values) :
              ( \/ \A i \in 1..Len(resampled.times) :
                      RLess(resampled.target.values[k], resampled.times[i])
                \/ \A i \in 1..Len(resampled.times) :
                      RLess(resampled.times[i], resampled.target.values[k]) )
              => ( k \in 1..Len(resampled.out.values) /\ IsNaN(resampled.out.values[k]) )

\* C3: for any curve, empty or not, and any target time index of length N
\* (without duplicate times), the resampler returns without error a series
\* of length N whose index is the target time index in the same order; for
\* an empty curve all N values are missing.
C3_ShapeInvariant ==
    resampled.status # "none"
        => /\ resampled.status = "ok"
           /\ Len(resampled.out.values) = Len(resampled.target.values)
           /\ resampled.out.index = resampled.target.values
           /\ resampled.curve.index = <<>>
                 => \A k \in 1..Len(resampled.out.values) : IsNaN(resampled.out.values[k])

\* a curve of two samples resampled to two target times given in decreasing
\* order, neither of them a converted sample time
C3_Witness ==
    /\ resampled.status = "ok"
    /\ Len(resampled.curve.index) = 2
    /\ resampled.target.values = <<Q(MaxKey + 1), Norm(1, 2)>>
    /\ \A i \in 1..2 : resampled.times[i] \notin Range(resampled.target.values)
    /\ ~IsNaN(resampled.out.values[2])

-----------------------------------------------------------------------------
(* Properties of the convolution (SpecConv).                               *)

LawLength(a, b, mode) ==
    CASE mode = "full" -> a + b - 1
      [] mode = "valid" -> Max(0, a - b + 1)
      [] mode = "same" -> a

\* C4: for a reflectivity series of length a and a wavelet of length b,
\* convolve_traces returns a series of length a+b-1 in mode 'full',
\* max(0, a-b+1) in mode 'valid' (also when the wavelet is the longer one),
\* and a in mode 'same'.
C4_LengthLaw ==
    synthetic.status # "none"
        => /\ synthetic.status = "ok"
           /\ Len(synthetic.out.values) =
                 LawLength(Len(synthetic.rc.values), Len(synthetic.wavelet), synthetic.mode)

-----------------------------------------------------------------------------
(* Properties of the wavelet (SpecRicker).                                 *)

Positive == wavelet.peak_frequency > 0 /\ wavelet.length_ms > 0 /\ wavelet.dt_ms > 0
OddCountAndLength(q) ==
    /\ wavelet.num_samples = (IF q % 2 = 0 THEN q + 1 ELSE q)
    /\ wavelet.num_samples % 2 = 1
    /\ Len(wavelet.t_ms) = wavelet.num_samples
    /\ wavelet.num_samples # q
          => wavelet.effective_length_ms = wavelet.num_samples * wavelet.dt_ms

\* C8 as stated: the sample count is round(length_ms / dt_ms), incremented by
\* one when that is even; so the count is odd, and the length used for the
\* time axis is n*dt_ms whenever n was incremented.
C8_RoundedCount ==
    (wavelet.status # "none" /\ Positive)
        => /\ wavelet.status = "ok"
           /\ OddCountAndLength(RoundDiv(wavelet.length_ms, wavelet.dt_ms))

\* C8 amended: the sample count is length_ms / dt_ms truncated to an integer
\* (the q with q*dt_ms <= length_ms < (q+1)*dt_ms), incremented by one when
\* that is even; so the count is odd, and the length used for the time axis
\* is n*dt_ms whenever n was incremented.
C8_TruncatedCount ==
    (wavelet.status # "none" /\ Positive)
        => /\ wavelet.status = "ok"
           /\ \E q \in 0..wavelet.length_ms :
                 /\ q * wavelet.dt_ms <= wavelet.length_ms
                 /\ wavelet.length_ms < (q + 1) * wavelet.dt_ms
                 /\ OddCountAndLength(q)

\* a quotient of 3.5, which truncates to the odd 3 and would round to 4;
\* and the state is one where truncation and rounding differ
C8_Witness ==
    /\ wavelet.status = "ok"
    /\ wavelet.length_ms = 7 /\ wavelet.dt_ms = 2
    /\ wavelet.num_samples = 3
    /\ RoundDiv(wavelet.length_ms, wavelet.dt_ms) = 4

\* C9: for all strictly positive parameters the time axis is symmetric about
\* zero (index[k] = -index[n-1-k]), its middle sample is exactly at t = 0,
\* where the amplitude is 1.0, the maximum; amplitude(t) = amplitude(-t).
\* (The amplitude is 1.0 exactly where (f t)^2 = 0.)
C9_SymmetricCentred ==
    (wavelet.status # "none" /\ Positive)
        => LET n == Len(wavelet.t_ms)
               mid == (n + 1) \div 2
           IN  /\ wavelet.status = "ok"
               /\ n >= 1
               /\ \A k \in 1..n : wavelet.t_ms[k] = RNeg(wavelet.t_ms[n + 1 - k])
               /\ wavelet.t_ms[mid] = Q(0)
               /\ wavelet.f_t_sq[mid] = Q(0)
               /\ \A k \in 1..n : wavelet.f_t_sq[k] = wavelet.f_t_sq[n + 1 - k]

-----------------------------------------------------------------------------
(* Properties of LogData (SpecLogData).                                    *)

ClaimedDomain(index_name) ==
    LET l == lower(index_name)
    IN  IF In(<<"d", "e", "p", "t", "h">>, l) \/ In(<<"d", "e", "p", "t">>, l) THEN "depth"
        ELSE IF In(<<"t", "i", "m", "e">>, l) \/ In(<<"t", "w", "t">>, l) THEN "time"
        ELSE "unknown"

\* C7: the domain of a LogData is 'depth' if its lower-cased index name
\* contains "depth" or "dept", 'time' if it contains "time" or "twt", and
\* 'unknown' otherwise; so the table convert_well_logs_to_time_domain
\* returns, whose index is named after the target index or "Time (ms)",
\* has domain 'time'.
C7_DomainInference ==
    logdata.status = "ok" => logdata.domain = ClaimedDomain(logdata.data.index.name)

-----------------------------------------------------------------------------
(* Properties of the interval summary (SpecWell).                          *)

RequiredColumns ==
    {"Base", "TopMD", "BaseMD", "gross_thickness", "net_sand", "ntg_sand"}

\* C5: the table summarize_intervals returns always has the columns base
\* name, top depth, base depth, gross thickness, net sand and net-to-gross,
\* also when the well has fewer than 2 tops or every interval slice is
\* empty, when the table is empty.
C5_ColumnsAlways ==
    summary.status = "ok"
        => /\ RequiredColumns \subseteq Range(summary.columns)
           /\ (Len(tops) < 2 => summary.rows = <<>>)

\* the value of a curve at a depth of the logs; the constant that stands for
\* an absent curve
ValueAt(curve, absent, depth) ==
    IF HasColumn(logs, curve)
    THEN Column(logs, curve)[CHOOSE i \in 1..Len(logs.index.values) :
                                logs.index.values[i] = depth]
    ELSE absent
PaySamples(row, a) ==
    {i \in 1..Len(row.slice) :
        /\ RLess(ValueAt(a.vsh_curve, Q(1), row.slice[i]), a.vsh_cutoff)
        /\ RLess(a.phi_cutoff[1], ValueAt(a.phi_curve, Q(0), row.slice[i]))
        /\ RLess(ValueAt(a.sw_curve, Q(1), row.slice[i]), a.sw_cutoff[1])}
SliceStep(row) ==
    IF Len(row.slice) < 2 THEN Q(0) ELSE median(diff(row.slice))

\* C6: when net pay is requested, summarize_intervals never fails because a
\* named vsh, phi or sw curve is absent, whichever of the three is absent
\* (all three included): an absent curve counts as the constant 1 (vsh, sw)
\* or 0 (phi), and net_pay = (samples with vsh<cutoff, phi>cutoff and
\* sw<cutoff) x step is reported for every non-empty interval.
C6_NetPayNeverFails ==
    (summary.status # "none" /\ Supplied(summary.args))
        => /\ summary.status = "ok"
           /\ \A r \in 1..Len(summary.rows) :
                 summary.rows[r].net_pay =
                     RMul(Q(Cardinality(PaySamples(summary.rows[r], summary.args))),
                          SliceStep(summary.rows[r]))

-----------------------------------------------------------------------------
(* Further properties of the checkshot pipeline (SpecInterp).              *)

Times(table) == {table[i][2] : i \in 1..Len(table)}
\* the rows that hold the first occurrence of their time
FirstTimeRows(table) == {k \in 1..Len(table) : \A j \in 1..(k - 1) : table[j][2] # table[k][2]}

\* C11: for every accepted table the keys handed to the interpolator of
\* time_to_depth are strictly increasing; they are the distinct times of the
\* table, each with the depth of the first row that has that time.
C11_KeysStrictlyIncreasing ==
    interp.status = "ok"
        => LET f == interp.time_to_depth_func
           IN  /\ Len(f.x) = Cardinality(Times(checkshot))
               /\ Len(f.y) = Len(f.x)
               /\ \A i \in 1..(Len(f.x) - 1) : RLess(f.x[i], f.x[i + 1])
               /\ \A i \in 1..Len(f.x) :
                     \E k \in FirstTimeRows(checkshot) :
                         f.x[i] = Q(checkshot[k][2]) /\ f.y[i] = Q(checkshot[k][1])

\* a table sorted by depth whose times go up and then down, with a time
\* given twice
C11_Witness ==
    /\ interp.status = "ok"
    /\ checkshot = << <<0, 1>>, <<1, 4>>, <<2, 1>> >>
    /\ interp.time_to_depth_func.x = <<Q(1), Q(4)>>
    /\ interp.time_to_depth_func.y = <<Q(0), Q(1)>>

\* C12: create_depth_time_interpolators raises ValueError when the table has
\* fewer than 2 rows, fewer than 2 unique depths or fewer than 2 unique
\* times, and in every other case returns both functions without error.
C12_ValueErrorCases ==
    interp.status # "none"
        => IF \/ Len(checkshot) < 2
              \/ Cardinality(Depths(checkshot)) < 2
              \/ Cardinality(Times(checkshot)) < 2
           THEN interp.status = "ValueError"
           ELSE /\ interp.status = "ok"
                /\ Len(interp.depth_to_time_func.x) >= 2
                /\ Len(interp.time_to_depth_func.x) >= 2

\* two rows with two depths and one time: refused for the times alone
C12_Witness ==
    /\ interp.status = "ValueError"
    /\ checkshot = << <<0, 1>>, <<1, 1>> >>

-----------------------------------------------------------------------------
(* Further properties of the resampler (SpecResample).                     *)

\* the samples of the curve whose depth was converted to the time t, and
\* those of them that hold a value
SamplesAt(t) == {i \in 1..Len(resampled.times) : resampled.times[i] = t}
DefinedAt(t) == {i \in SamplesAt(t) : ~IsNaN(resampled.curve.values[i])}
RECURSIVE SumOver(_, _)
SumOver(I, values) ==
    IF I = {} THEN Q(0)
    ELSE LET i == CHOOSE j \in I : TRUE
         IN  RAdd(values[i], SumOver(I \ {i}, values))
MeanAt(t) == RDiv(SumOver(DefinedAt(t), resampled.curve.values), Q(Cardinality(DefinedAt(t))))

\* C13: when several depth samples of the curve map to the same time, a
\* target time equal to that time receives the arithmetic mean of their
\* values (of those that are not missing), not the first of them.
C13_MeanAtDuplicateTimes ==
    resampled.status = "ok"
        => \A k \in 1..Len(resampled.target.values) :
              LET t == resampled.target.values[k]
              IN  (Cardinality(SamplesAt(t)) >= 2 /\ DefinedAt(t) # {})
                      => resampled.out.values[k] = MeanAt(t)

\* depths 1 and 2 both converted to time 1, with values 0 and 1: the target
\* time 1 receives 1/2
C13_Witness ==
    /\ resampled.status = "ok"
    /\ resampled.times = <<Q(1), Q(1)>>
    /\ resampled.curve.values = <<Q(0), Q(1)>>
    /\ \E k \in 1..Len(resampled.target.values) :
          resampled.target.values[k] = Q(1) /\ resampled.out.values[k] = Norm(1, 2)


\* C14: for every input curve, empty or not, the returned series is named
\* '<source name>_time', and its index is named after target_time_index when
\* that index has a name, "Time (ms)" otherwise.
C14_ResultNaming ==
    resampled.status # "none"
        => /\ resampled.status = "ok"
           /\ resampled.source_name # "" => resampled.name = resampled.source_name \o "_time"
           /\ resampled.index_name =
                 (IF resampled.target.name # <<>> THEN resampled.target.name ELSE TimeMs)

-----------------------------------------------------------------------------
(* Further properties of LogData (SpecLogData).                            *)

\* the requested names the depth table holds, each once, in request order
PresentNames ==
    LET m == conversion.log_mnemonics
    IN  SelectSeq(m, LAMBDA c : HasColumn(conversion.depth_log_dataframe, c))

-----------------------------------------------------------------------------
(* Properties of the reflectivity (SpecReflectivity).                      *)

Impedance == reflectivity.acoustic_impedance.values
\* the position of the output that holds the coefficient of the pair
\* (Z[i], Z[i+1]): i, or i + 1 in mode 'interface_below'
PairPosition(i) == IF reflectivity.mode = "interface_below" THEN i + 1 ELSE i
\* |Z2 + Z1| > 1e-9, on impedances counted in units of 5e-10
DenominatorValid(z1, z2) ==
    /\ ~IsNaN(z1) /\ ~IsNaN(z2)
    /\ \/ z1[1] * z2[2] + z2[1] * z1[2] > 2 * z1[2] * z2[2]
       \/ z1[1] * z2[2] + z2[1] * z1[2] < -2 * z1[2] * z2[2]
\* v = (Z2 - Z1) / (Z2 + Z1), said without a division
IsCoefficient(v, z1, z2) == ~IsNaN(v) /\ RMul(v, RAdd(z2, z1)) = RSub(z2, z1)

\* C16: in every mode, the reflectivity value of an adjacent pair (Z1, Z2)
\* is (Z2-Z1)/(Z2+Z1) when |Z2+Z1| > 1e-9 and is NaN otherwise: never zero
\* and never a quotient when the denominator is within epsilon of zero.
C16_GuardedCoefficient ==
    reflectivity.status = "ok"
        => \A i \in 1..(Len(Impedance) - 1) :
              LET v == reflectivity.out.values[PairPosition(i)]
              IN  IF DenominatorValid(Impedance[i], Impedance[i + 1])
                  THEN IsCoefficient(v, Impedance[i], Impedance[i + 1])
                  ELSE IsNaN(v)

\* a pair whose sum is below epsilon without being zero, beside a pair
\* whose sum is well above it
C16_Witness ==
    /\ reflectivity.status = "ok"
    /\ reflectivity.mode = "interface_between"
    /\ Impedance = <<Q(-1), Q(2), Q(3)>>
    /\ reflectivity.out.values = <<NaN, Norm(1, 5)>>

\* C17: for n >= 2 samples the result has, in mode 'interface_above', n
\* samples on the input index, the coefficient of pair i at position i and
\* the last sample NaN; in mode 'interface_below', n samples on the input
\* index, the coefficient of pair i at position i+1 and the first sample
\* NaN; in mode 'interface_between', n-1 samples indexed by the input index
\* without its last entry, the coefficient of pair i at position i.
C17_ModeAlignment ==
    ( /\ reflectivity.status # "none"
      /\ Len(Impedance) >= 2
      /\ reflectivity.mode \in {"interface_above", "interface_below", "interface_between"} )
        => LET n == Len(Impedance)
               index == reflectivity.acoustic_impedance.index
               out == reflectivity.out
               rc == pair_coefficients(Impedance)
           IN  /\ reflectivity.status = "ok"
               /\ Len(out.index) = Len(out.values)
               /\ CASE reflectivity.mode = "interface_above" ->
                          /\ out.index = index
                          /\ IsNaN(out.values[n])
                          /\ \A i \in 1..(n - 1) : out.values[i] = rc[i]
                    [] reflectivity.mode = "interface_below" ->
                          /\ out.index = index
                          /\ IsNaN(out.values[1])
                          /\ \A i \in 1..(n - 1) : out.values[i + 1] = rc[i]
                    [] reflectivity.mode = "interface_between" ->
                          /\ out.index = SubSeq(index, 1, n - 1)
                          /\ \A i \in 1..(n - 1) : out.values[i] = rc[i]

\* three samples in mode 'interface_below': the first output is NaN and
\* the two coefficients follow it
C17_Witness ==
    /\ reflectivity.status = "ok"
    /\ reflectivity.mode = "interface_below"
    /\ Impedance = <<Q(1), Q(3), Q(3)>>
    /\ reflectivity.out.values = <<NaN, Norm(1, 2), Q(0)>>
    /\ reflectivity.out.index = reflectivity.acoustic_impedance.index

-----------------------------------------------------------------------------
(* Further properties of the convolution (SpecConv).                       *)

\* C18: in mode 'same', for every reflectivity series and every wavelet, the
\* index of the result is the index of the input series: same values, same
\* length, same order.
C18_SameModeIndex ==
    (synthetic.status # "none" /\ synthetic.mode = "same")
        => /\ synthetic.status = "ok"
           /\ synthetic.out.index = synthetic.rc.index
           /\ Len(synthetic.out.values) = Len(synthetic.rc.index)

\* a wavelet longer than the series, whose index starts at 3 and steps by 2
C18_Witness ==
    /\ synthetic.status = "ok" /\ synthetic.mode = "same"
    /\ Len(synthetic.wavelet) = 3
    /\ synthetic.rc.index = <<Q(3), Q(5)>>
    /\ synthetic.out.index = <<Q(3), Q(5)>>

\* the input series with 0 in the place of every NaN
ZeroFilled(values) == [i \in 1..Len(values) |-> IF values[i] = NaN THEN Q(0) ELSE values[i]]

\* C19: NaN reflectivity values are treated as zero by the convolution: the
\* result is the convolution of the series in which every NaN is replaced
\* by 0 at its place, the output holds no NaN, and the series of the caller
\* still is the one that was passed, NaN included.
C19_NaNTreatedAsZero ==
    synthetic.status = "ok"
        => /\ synthetic.out.values =
                 scipy_convolve(ZeroFilled(synthetic.rc.values), synthetic.wavelet, synthetic.mode)
           /\ \A k \in 1..Len(synthetic.out.values) : ~IsNaN(synthetic.out.values[k])
           /\ rc_trace = synthetic.rc

\* a NaN between two coefficients, convolved in full with <<1, -1>>
C19_Witness ==
    /\ synthetic.status = "ok" /\ synthetic.mode = "full"
    /\ synthetic.rc.values = <<Q(1), NaN, Q(2)>>
    /\ synthetic.wavelet = <<Q(1), Q(-1)>>
    /\ synthetic.out.values = <<Q(1), Q(-1), Q(2), Q(-2)>>
    /\ IsNaN(rc_trace.values[2])

\* C20: in mode 'full' the index of the result is start + k*dt for
\* k = 0..len(output)-1, where dt is the difference of the first two index
\* values of the input (1 when it has fewer than 2 samples) and start is
\* the first time of the input moved back by ((len(wavelet)-1) div 2)*dt.
C20_FullModeIndex ==
    (synthetic.status # "none" /\ synthetic.mode = "full")
        => LET index == synthetic.rc.index
               dt == IF Len(index) >= 2 THEN RSub(index[2], index[1]) ELSE Q(1)
               shift == RMul(Q((Len(synthetic.wavelet) - 1) \div 2), dt)
               start == RSub(index[1], shift)
           IN  /\ synthetic.status = "ok"
               /\ Len(synthetic.out.index) = Len(synthetic.out.values)
               /\ \A k \in 1..Len(synthetic.out.index) :
                     synthetic.out.index[k] = RAdd(start, RMul(Q(k - 1), dt))

\* a wavelet of three samples on a series that starts at 3 and steps by 2:
\* the index of the result starts one step earlier
C20_Witness ==
    /\ synthetic.status = "ok" /\ synthetic.mode = "full"
    /\ Len(synthetic.wavelet) = 3
    /\ synthetic.rc.index = <<Q(3), Q(5)>>
    /\ synthetic.out.index = <<Q(1), Q(3), Q(5), Q(7)>>


\* C21: in mode 'valid' the result is never longer than the input; its
\* index is the slice of the input index that starts at position
\* (len(wavelet)-1) div 2 and has the length of the result, or 0..len-1 when
\* that slice does not fit; an empty result has an empty index, without
\* error.
C21_ValidModeIndex ==
    (synthetic.status # "none" /\ synthetic.mode = "valid")
        => LET index == synthetic.rc.index
               n == Len(synthetic.out.values)
               offset == (Len(synthetic.wavelet) - 1) \div 2
           IN  /\ synthetic.status = "ok"
               /\ n <= Len(index)
               /\ synthetic.out.index =
                     (IF offset + n <= Len(index)
                      THEN SubSeq(index, offset + 1, offset + n)
                      ELSE [k \in 1..n |-> Q(k - 1)])

-----------------------------------------------------------------------------
(* Further properties of the tops and of the interval summary (SpecWell).  *)

TopNamesOf(t) == {t[i][1] : i \in 1..Len(t)}

\* C22: after any sequence of add_top calls, where adding a name again
\* replaces its depth, get_intervals returns no interval when the well has
\* fewer than 2 distinct names, and otherwise one interval less than it has
\* tops: the consecutive pairs of the tops sorted by depth, so that
\* top_depth <= base_depth, the base of an interval is the top of the next,
\* and a name is the top of at most one interval.
C22_ConsecutiveIntervals ==
    summary.status # "none"
        => LET iv == summary.intervals
               n == Cardinality(TopNamesOf(tops))
               chain == {iv[i][1] : i \in 1..Len(iv)} \cup {iv[Len(iv)][3]}
           IN  /\ n = Len(tops)
               /\ n < 2 => iv = <<>>
               /\ n >= 2 =>
                     /\ Len(iv) = n - 1
                     /\ chain = TopNamesOf(tops)
                     /\ \A i \in 1..Len(iv) :
                           /\ \E j \in 1..Len(tops) : tops[j] = <<iv[i][1], iv[i][2]>>
                           /\ \E j \in 1..Len(tops) : tops[j] = <<iv[i][3], iv[i][4]>>
                           /\ iv[i][2] <= iv[i][4]
                     /\ \A i \in 1..(Len(iv) - 1) :
                           iv[i][3] = iv[i + 1][1] /\ iv[i][4] = iv[i + 1][2]
                     /\ \A i, j \in 1..Len(iv) : iv[i][1] = iv[j][1] => i = j

\* three tops, the first of them the deepest, so that the order by depth is
\* not the order of insertion
C22_Witness ==
    /\ summary.status # "none"
    /\ Len(tops) = 3
    /\ tops[1][2] > tops[3][2] /\ tops[3][2] > tops[2][2]
    /\ Len(summary.intervals) = 2
    /\ summary.intervals[2][3] = tops[1][1]

\* the depths of the logs that lie in [top_depth, base_depth)
DepthsWithin(top_depth, base_depth) ==
    {d \in Range(logs.index.values) : RLeq(Q(top_depth), d) /\ RLess(d, Q(base_depth))}
RowsOf(interval) ==
    {r \in 1..Len(summary.rows) :
        summary.rows[r].Top = interval[1] /\ summary.rows[r].Base = interval[3]}
DeepestTop == CHOOSE m \in {tops[i][2] : i \in 1..Len(tops)} : \A i \in 1..Len(tops) : tops[i][2] <= m

\* C23: summarize_intervals gives an interval exactly the rows of the logs
\* with top_depth <= depth < base_depth: an interval whose slice is empty
\* (one of zero thickness included) has no row of the summary, every other
\* interval has one, a depth is in the slice of at most one interval, and a
\* depth at or below the deepest top is in none.
C23_HalfOpenSlices ==
    summary.status = "ok"
        => /\ \A i \in 1..Len(summary.intervals) :
                 LET interval == summary.intervals[i]
                     within == DepthsWithin(interval[2], interval[4])
                 IN  IF within = {} THEN RowsOf(interval) = {}
                     ELSE /\ Cardinality(RowsOf(interval)) = 1
                          /\ \A r \in RowsOf(interval) :
                                /\ Range(summary.rows[r].slice) = within
                                /\ Len(summary.rows[r].slice) = Cardinality(within)
                                /\ summary.rows[r].TopMD = interval[2]
                                /\ summary.rows[r].BaseMD = interval[4]
           /\ \A r \in 1..Len(summary.rows) :
                 \E i \in 1..Len(summary.intervals) : r \in RowsOf(summary.intervals[i])
           /\ \A r, q \in 1..Len(summary.rows) :
                 Range(summary.rows[r].slice) \cap Range(summary.rows[q].slice) # {} => r = q
           /\ \A r \in 1..Len(summary.rows) :
                 \A d \in Range(summary.rows[r].slice) : RLess(d, Q(DeepestTop))

\* two intervals with samples and one of zero thickness between tops at the
\* same depth, with a sample at the deepest top that no interval takes
C23_Witness ==
    /\ summary.status = "ok"
    /\ Len(summary.intervals) = 2
    /\ Len(summary.rows) = 1
    /\ summary.intervals[2][2] = summary.intervals[2][4]
    /\ Len(summary.rows[1].slice) >= 2
    /\ Q(DeepestTop) \in Range(logs.index.values)

\* C24: for every slice that is not empty the gross thickness is
\* (max depth - min depth) + step, the step being the median of the
\* differences of consecutive depths; a slice of one sample is reported
\* without error with gross thickness 0, net sand 0 and an undefined ntg.
C24_GrossThickness ==
    summary.status = "ok"
        => \A r \in 1..Len(summary.rows) :
              LET row == summary.rows[r]
                  n == Len(row.slice)
              IN  /\ n >= 1
                  /\ n = 1 => /\ row.gross_thickness = Q(0)
                              /\ row.net_sand = Q(0)
                              /\ IsNaN(row.ntg_sand)
                  /\ n > 1 => row.gross_thickness =
                                 RAdd(RSub(row.slice[n], row.slice[1]),
                                      median(diff(row.slice)))

\* a slice sampled unevenly, whose median step is not its mean step
C24_Witness ==
    /\ summary.status = "ok"
    /\ \E r \in 1..Len(summary.rows) :
          LET s == summary.rows[r].slice
          IN  /\ Len(s) >= 4
              /\ median(diff(s)) # RDiv(RSub(s[Len(s)], s[1]), Q(Len(s) - 1))

SandSamples(row) ==
    {i \in 1..Len(row.slice) :
        RLess(ValueAt(summary.args.vsh_curve, NaN, row.slice[i]), summary.args.vsh_cutoff)}
ShaleSamples(row) ==
    {i \in 1..Len(row.slice) :
        RLess(summary.args.vsh_cutoff, ValueAt(summary.args.vsh_curve, NaN, row.slice[i]))}
UniformStep(row) ==
    \A i, j \in 1..(Len(row.slice) - 1) : diff(row.slice)[i] = diff(row.slice)[j]

\* C25: for every interval of positive gross thickness (with the vsh curve
\* among the logs), net sand is the number of samples of the slice with
\* vsh < vsh_cutoff times the step, and net-to-gross is net sand divided by
\* the gross thickness; on a uniform step an interval all below the cutoff
\* has net sand equal to its gross thickness and net-to-gross 1, and an
\* interval all above the cutoff has net sand 0 and net-to-gross 0.
C25_NetSand ==
    (summary.status = "ok" /\ HasColumn(logs, summary.args.vsh_curve))
        => \A r \in 1..Len(summary.rows) :
              LET row == summary.rows[r]
                  n == Len(row.slice)
              IN  RLess(Q(0), row.gross_thickness)
                    => /\ row.net_sand =
                             RMul(Q(Cardinality(SandSamples(row))), median(diff(row.slice)))
                       /\ row.ntg_sand = RDiv(row.net_sand, row.gross_thickness)
                       /\ (UniformStep(row) /\ Cardinality(SandSamples(row)) = n)
                             => row.net_sand = row.gross_thickness /\ row.ntg_sand = Q(1)
                       /\ (UniformStep(row) /\ Cardinality(ShaleSamples(row)) = n)
                             => row.net_sand = Q(0) /\ row.ntg_sand = Q(0)

\* on a uniform step of 1/2: an interval of two samples all below the
\* cutoff beside an interval of two samples of which one is above it
C25_Witness ==
    /\ summary.status = "ok"
    /\ Len(summary.rows) = 2
    /\ LET row == summary.rows[1]
       IN  /\ Len(row.slice) = 2 /\ diff(row.slice)[1] = <<1, 2>>
           /\ Cardinality(ShaleSamples(row)) = 1
           /\ row.ntg_sand = <<1, 2>>
    /\ LET row == summary.rows[2]
       IN  /\ Len(row.slice) = 2 /\ diff(row.slice)[1] = <<1, 2>>
           /\ Cardinality(SandSamples(row)) = 2
           /\ row.net_sand = Q(1) /\ row.ntg_sand = Q(1)

\* C28: net-to-gross is a fraction: for every reported interval of positive
\* gross thickness with the vsh curve among the logs, 0 <= ntg_sand <= 1 (net
\* sand never exceeds the gross thickness), on every increasing sampling of
\* the depths, uniform or not.
C28_NtgIsFraction ==
    (summary.status = "ok" /\ HasColumn(logs, summary.args.vsh_curve))
        => \A r \in 1..Len(summary.rows) :
              LET row == summary.rows[r]
              IN  RLess(Q(0), row.gross_thickness)
                    => /\ RLeq(Q(0), row.ntg_sand) /\ RLeq(row.ntg_sand, Q(1))
                       /\ RLeq(row.net_sand, row.gross_thickness)

-----------------------------------------------------------------------------
(* A further property of the Ricker wavelet (SpecRicker).                  *)

\* C29: the samples of the wavelet are spaced by exactly dt_ms, for all
\* positive parameters that give more than one sample.
C29_SampleSpacing ==
    (wavelet.status = "ok" /\ wavelet.num_samples > 1)
        => \A i \in 1..(Len(wavelet.t_ms) - 1) :
              RSub(wavelet.t_ms[i + 1], wavelet.t_ms[i]) = Q(wavelet.dt_ms)

-----------------------------------------------------------------------------
(* The inputs of the transforms after the call (SpecResample, SpecLogData). *)

\* C26: the transforms leave their inputs as they were: after
\* resample_log_to_time_domain and after convert_well_logs_to_time_domain
\* the caller's target_time_index has the values and the name it had
\* before (the curve, the table, and the logs and tops of a well under
\* summarize_intervals are only read).
C26_InputsUnchanged ==
    /\ resampled.status = "ok" => resampled.target_after = resampled.target
    /\ conversion.called => conversion.target_after = conversion.target_time_index

-----------------------------------------------------------------------------
(* The nomenclature (SpecNomenclature) and the time-domain accessor        *)
(* (SpecAccessor).                                                         *)

\* C27: set_log_type(m, T) sets or overrides the canonical type of the
\* mnemonic m: from the call until a later set_log_type for m,
\* get_log_type(m) returns T in upper case, whatever the alias map held
\* before, also when m or a prefix of m is an alias of another type.
C27_SetLogTypeOverrides ==
    (log_type.status = "ok" /\ overrides[upper(log_type.mnemonic)] # <<>>)
        => log_type.result = overrides[upper(log_type.mnemonic)]

\* C30: the time-domain view of a well shows its current logs: after any
\* add_log calls, before or after the first access to well.time_domain,
\* time_domain.get_log(m) succeeds for every mnemonic m in well.logs and
\* returns the values stored under m.
C30_TimeDomainCurrent ==
    (time_log.status # "none" /\ HasColumn(logs, time_log.mnemonic))
        => /\ time_log.status = "ok"
           /\ time_log.values = Column(logs, time_log.mnemonic)

=============================================================================
